---- MODULE Spec2Model ----
(***************************************************************************)
(* A model of the text-summarizer training-data pipeline:                  *)
(*   utils/core.py            download_file                                *)
(*   components/data_ingestion.py   DataIngestion                          *)
(*   dbhandler/base_handler.py, dbhandler/s3_handler.py   handler scope    *)
(*   components/data_transformation.py   _split_and_tokenize               *)
(***************************************************************************)
EXTENDS Integers, Sequences, FiniteSets, TLC

(***************************************************************************)
(* Bounds of the model.                                                    *)
(***************************************************************************)
\* longest URL path (segments after the host) that is enumerated
MaxPath == 4
\* largest value of the `retries` argument that is enumerated
MaxRetries == 3

\* largest number of with blocks one handler is used for
MaxScopes == 4
\* largest number of handler operations in the body of a with block
MaxOps == 3
\* largest number of records of the dataset that is split
MaxRows == 10
\* largest random_state seed that is enumerated
MaxSeed == 1
\* longest part of an s3_uri argument after its head
MaxKey == 3
\* the clock runs from 0 to MaxClock ticks
MaxClock == 3
\* ticks of the clock in one second
TicksPerSecond == 2
\* most calls of get_utc_timestamp, and most managers constructed
MaxCalls == 2
\* threads of one process that call get_utc_timestamp
MaxThreads == 3
\* most tokens of a dialogue or of a summary
MaxText == 1
\* largest max_input_length and max_target_length
MaxLen == 2
\* most records of the dataset that is split and tokenized
MaxBatch == 2
\* deepest file under the directory that is synced
MaxDepth == 2

(***************************************************************************)
(* Program constants.                                                      *)
(***************************************************************************)
\* download_file(..., retries: int = 3, ...)
DefaultRetries == 3
\* download_file(..., delay: float = 2.0)
DefaultDelay == 2

(***************************************************************************)
(* URLs.  A URL "https://<host>/<s1>/<s2>/..." is the sequence             *)
(* <<host, s1, s2, ...>> of its "/"-separated parts, so the substring      *)
(* "/blob/" occurs exactly where a part "blob" has a "/" on both sides:    *)
(* at an index i with 2 <= i < Len(u).                                     *)
(***************************************************************************)
Hosts == {"github.com", "example.org"}
Segments == {"blob", "d.zip"}

RECURSIVE SeqsUpTo(_, _)
SeqsUpTo(S, n) ==
    IF n = 0 THEN {<<>>}
    ELSE LET shorter == SeqsUpTo(S, n - 1)
         IN  shorter \cup {Append(s, x) : s \in {t \in shorter : Len(t) = n - 1}, x \in S}

Urls == {<<h>> \o p : h \in Hosts, p \in (SeqsUpTo(Segments, MaxPath) \ {<<>>})}

\* "github.com" in url
HasGithub(u) == \E i \in 1..Len(u) : u[i] = "github.com"

\* "/blob/" in url
HasBlob(u) == \E i \in 2..(Len(u) - 1) : u[i] = "blob"

\* url.replace("/blob/", "/raw/"): str.replace scans left to right and replaces
\* non-overlapping occurrences; a match at part i consumes the "/" that
\* precedes part i+1, so part i+1 cannot start another match.
RECURSIVE ReplaceFrom(_, _, _)
ReplaceFrom(u, i, prevMatched) ==
    IF i > Len(u) THEN <<>>
    ELSE IF u[i] = "blob" /\ i >= 2 /\ i < Len(u) /\ ~prevMatched
         THEN <<"raw">> \o ReplaceFrom(u, i + 1, TRUE)
         ELSE <<u[i]>> \o ReplaceFrom(u, i + 1, FALSE)

ReplaceBlob(u) == ReplaceFrom(u, 1, FALSE)

\* the URL download_file requests (core.py 279-281)
RewriteUrl(u) == IF HasGithub(u) /\ HasBlob(u) THEN ReplaceBlob(u) ELSE u

(***************************************************************************)
(* File contents.                                                          *)
(***************************************************************************)
NoFile == [kind |-> "none", entries |-> <<>>]
\* what an attempt that failed while writing leaves behind
Partial == [kind |-> "partial", entries |-> <<>>]
\* a ZIP archive: the names of its members in archive order, each name a
\* pair <<stem, suffix>>
Zip(names) == [kind |-> "zip", entries |-> names]
\* the DataFrame parsed from the member `name`
Table(name) == [kind |-> "table", entries |-> <<name>>]
\* the CSV file df.to_csv writes for a DataFrame
Csv(df) == [kind |-> "csv", entries |-> df.entries]

ACsv == <<"a", ".csv">>
BCsv == <<"b", ".csv">>
Readme == <<"readme", ".txt">>
Archives == {Zip(<<>>), Zip(<<ACsv>>), Zip(<<Readme>>),
             Zip(<<Readme, ACsv>>), Zip(<<BCsv, ACsv>>)}

\* name.endswith('.csv')
EndsWithCsv(name) == name[2] = ".csv"

Exists(f) == f.kind # "none"

FilePaths == {"raw_filepath", "dvc_raw_filepath", "ingested_filepath"}
ParentDir(p) == CASE p = "raw_filepath" -> "raw_data"
                  [] p = "dvc_raw_filepath" -> "data/raw"
                  [] p = "ingested_filepath" -> "ingested_data"

\* a value that is absent (Python's None) in a field holding a location
None == <<>>
\* a local location: Path objects are modelled by the name of the config field
LocalPath(p) == <<p>>
\* S3HandlerConfig.bucket_name
Bucket == "bucket"
\* f"s3://{bucket_name}/{s3_key}" split at its "/" characters
S3Uri(key) == <<"s3:", "", Bucket, key>>

\* DataIngestionConfig.raw_s3_key etc.: the posix form of the local path
S3Key(p) == p

ArtifactFields == {"raw_filepath", "dvc_raw_filepath", "ingested_filepath",
                   "raw_s3_uri", "dvc_raw_s3_uri", "ingested_s3_uri"}
LocalFields == {"raw_filepath", "dvc_raw_filepath", "ingested_filepath"}
RemoteFields == {"raw_s3_uri", "dvc_raw_s3_uri", "ingested_s3_uri"}

\* data_ingestion.py 63-70: the dictionary _persist_data starts from
EmptyPaths == [f \in ArtifactFields |-> None]

\* config.data_ingestion.source_URL values that are enumerated
SourceUrls == {<<"github.com", "u", "blob", "d.zip">>, <<"example.org", "d.zip">>}

VARIABLES
    mode,       \* which entry point the caller uses
    pc,         \* position in the running operation
    urlArg,     \* download_file: the url argument as passed
    url,        \* download_file: the local variable url
    retries,    \* download_file: the retries argument
    delay,      \* download_file: the delay argument
    attempt,    \* download_file: the loop variable
    trace,      \* network requests and sleeps made, in order
    served,     \* the payload the server answers a successful request with
    fs,         \* the local filesystem: path -> content
    fs0,        \* the filesystem when the operation was called
    dirs,       \* the directories that exist
    dlResult,   \* how download_file ended: "none", "returned", "raised"
    conf,       \* DataIngestion.ingestion_config
    handler,    \* DataIngestion.backup_handler is not None
    df,         \* run_ingestion: the extracted DataFrame
    paths,      \* _persist_data: the dictionary being filled
    s3,         \* the bucket: key -> object
    artifact,   \* the DataIngestionArtifact returned
    ingResult,  \* how run_ingestion ended: "none", "returned", "raised"
    cause,      \* the original error wrapped by the TextSummarizerError raised
    \* ---- a handler used as a context manager
    hKind,      \* the class whose __enter__/__exit__ the handler has
    scPc,       \* "outside" or "inside" the with block
    bound,      \* what the with statement bound to its target
    enters,     \* number of scopes entered
    exits,      \* number of scopes left, on any path
    closeCalls, \* number of calls of handler.close()
    bodyErr,    \* the error the body of the last with block raised
    closeErr,   \* whether close() raised in the last __exit__
    escaped,    \* the error that left the last with statement
    ops,        \* handler operations done in the current with block
    \* ---- DataTransformation._split_and_tokenize
    tconf,      \* the DataTransformationConfig fields the split reads
    nrows,      \* number of records of the input dataset
    npState,    \* the state of numpy's global generator
    spPc,       \* position in _split_and_tokenize
    exec,       \* which execution on this input is running (1 or 2)
    train_valtest, \* the result of the first train_test_split
    val_test,   \* the result of the second train_test_split
    out,        \* the dictionary returned by this execution
    out1,       \* the dictionary returned by the first execution
    spResult,   \* how this execution ended
    spResult1,  \* how the first execution ended
    \* ---- S3Handler._parse_s3_uri and the load operations
    s3_uri,     \* the s3_uri argument, a sequence of characters
    uriPc,      \* "call" before the operation, "done" after it
    uriOp,      \* the operation that was called
    uriResult,  \* how it ended, with the error raised or the pair returned
    getCalls,   \* the get_object requests made, in order
    \* ---- one process: the clock, timestamp.py and ConfigurationManager
    clock,      \* the UTC time, in ticks
    timestamp_cache,  \* timestamp.py: _timestamp_cache
    global_timestamp, \* ConfigurationManager._global_timestamp
    docs,       \* the two documents config.yaml and params.yaml
    stamps,     \* the calls of get_utc_timestamp: when, and what was returned
    managers,   \* the ConfigurationManager instances constructed
    artRoots,   \* the artifacts/<timestamp> directories that exist
    cmResult,   \* how the last operation of the manager ended
    \* ---- two pipeline runs, each a process of its own
    rClock,     \* the UTC time, in ticks
    runPc,      \* run -> position of the run
    runRoot,    \* run -> the timestamp of its artifacts_root
    rawFiles,   \* timestamp -> the raw archive under artifacts/<timestamp>
    runRead,    \* run -> the run whose archive it extracted (0: none)
    \* ---- TrainingPipeline.run_pipeline and DataTransformation
    plPc,       \* position in run_pipeline
    plResult,   \* how run_pipeline ended: "none", "returned", "raised"
    plCause,    \* the stage whose failure run_pipeline wrapped
    tStarted,   \* number of DataTransformation objects constructed
    tHandler,   \* DataTransformation.backup_handler is not None
    snap,       \* the files and objects as run_ingestion left them
    tdir,       \* the directory artifacts/<timestamp>/data_transformation exists
    tfs,        \* the tokenized partitions written locally
    ts3,        \* the tokenized partitions streamed to the bucket
    tartifact,  \* the DataTransformationArtifact returned
    \* ---- an entity object (config_entity.py, artifact_entity.py)
    objClass,   \* its class
    objFields,  \* its fields now
    objBuilt,   \* its fields when the constructor returned
    setResult,  \* how the last attribute assignment ended
    \* ---- threads of one process calling get_utc_timestamp
    thPc,       \* thread -> position in get_utc_timestamp
    thLocal,    \* thread -> the string strftime returned to it
    thRet,      \* thread -> the value its call returned
    cacheWrites, \* the values stored in _timestamp_cache, in order
    \* ---- the tokenization of the three partitions
    splits,     \* partition -> its records before tokenization
    max_input_length,  \* DataTransformationConfig.max_input_length
    max_target_length, \* DataTransformationConfig.max_target_length
    tokPc,      \* the partition being mapped next
    tokenized,  \* partition -> its records after tokenization
    \* ---- S3Handler.sync_directory
    local_dir,  \* what the local_dir argument names: "dir", "file", "absent"
    tree,       \* the regular files under local_dir, as relative paths
    unreadable, \* the directories under local_dir that cannot be listed
    listing,    \* the order in which a directory lists its entries
    s3_prefix,  \* the s3_prefix argument
    syncPc,     \* position in sync_directory
    todo,       \* the files os.walk has still to yield
    uploads,    \* the upload_file calls that succeeded, in order
    syncResult, \* how sync_directory ended, with the chain of causes
    \* ---- the stream operations of S3Handler
    bucket_name, \* S3HandlerConfig.bucket_name
    s3_key,     \* the s3_key argument
    putCalls    \* the put_object requests made, in order

dlVars == <<urlArg, url, retries, delay, attempt, trace, dlResult>>
ingVars == <<conf, handler, df, paths, s3, artifact, ingResult>>
mainVars == <<mode, pc, urlArg, url, retries, delay, attempt, trace, served, fs, fs0,
              dirs, dlResult, conf, handler, df, paths, s3, artifact, ingResult, cause>>
scopeVars == <<hKind, scPc, bound, enters, exits, closeCalls, bodyErr, closeErr, escaped, ops>>
splitVars == <<tconf, nrows, npState, spPc, exec, train_valtest, val_test, out, out1,
               spResult, spResult1>>
uriVars == <<s3_uri, uriPc, uriOp, uriResult, getCalls>>
cmVars == <<clock, timestamp_cache, global_timestamp, docs, stamps, managers, artRoots,
            cmResult>>
runVars == <<rClock, runPc, runRoot, rawFiles, runRead>>
plVars == <<plPc, plResult, plCause, tStarted, tHandler, snap, tdir, tfs, ts3, tartifact>>
entVars == <<objClass, objFields, objBuilt, setResult>>
thVars == <<thPc, thLocal, thRet, cacheWrites>>
tokVars == <<splits, max_input_length, max_target_length, tokPc, tokenized>>
syncVars == <<local_dir, tree, unreadable, listing, s3_prefix, syncPc, todo, uploads,
              syncResult>>
streamVars == <<bucket_name, s3_key, putCalls>>
\* the threads, the tokenization, the directory sync and the stream operations
moreVars == <<thVars, tokVars, syncVars, streamVars>>
\* the handler operations, the configuration, the runs and the entities
extVars == <<uriVars, cmVars, runVars, entVars, moreVars>>
\* what the actions of download_file and DataIngestion leave alone
aux == <<scopeVars, splitVars, extVars, plVars>>
vars == <<mainVars, scopeVars, splitVars, extVars, plVars>>

\* the events of the trace: requests.get(url) with its outcome, sleep(delay)
Get(u, r) == [ev |-> "get", url |-> u, res |-> r, secs |-> 0]
Sleep(d) == [ev |-> "sleep", url |-> <<>>, res |-> "", secs |-> d]

(***************************************************************************)
(* Initial states.  Either download_file is called directly with any       *)
(* arguments, or run_ingestion is called on a constructed DataIngestion.   *)
(* The destination may be missing, complete or partial (left by an earlier *)
(* call); the DVC copy data/raw/<name> is at a fixed place and may be left *)
(* from an earlier run.                                                    *)
(***************************************************************************)
InitFs(raw, dvc) == [p \in FilePaths |-> IF p = "raw_filepath" THEN raw
                                         ELSE IF p = "dvc_raw_filepath" THEN dvc
                                         ELSE NoFile]
InitDirs(raw, dvc) == (IF Exists(raw) THEN {ParentDir("raw_filepath")} ELSE {})
                      \cup (IF Exists(dvc) THEN {ParentDir("dvc_raw_filepath")} ELSE {})

NoConf == [source_url |-> <<>>, local_enabled |-> FALSE, s3_enabled |-> FALSE]

InitIdleIngestion ==
    /\ df = NoFile
    /\ paths = EmptyPaths
    /\ s3 = [p \in FilePaths |-> NoFile]
    /\ artifact = EmptyPaths
    /\ ingResult = "none"
    /\ cause = "none"

InitDownload ==
    /\ mode = "download"
    /\ pc = "call"
    /\ urlArg \in Urls
    /\ url = urlArg
    /\ retries \in -1..MaxRetries
    /\ delay \in {1, DefaultDelay}
    /\ attempt = 0
    /\ trace = <<>>
    /\ served \in {Zip(<<ACsv>>)}
    /\ \E raw \in {NoFile, Partial, Zip(<<ACsv>>), Zip(<<BCsv, ACsv>>)} :
          /\ fs = InitFs(raw, NoFile)
          /\ dirs = InitDirs(raw, NoFile)
    /\ fs0 = fs
    /\ dlResult = "none"
    /\ conf = NoConf
    /\ handler = FALSE
    /\ InitIdleIngestion

InitIngest ==
    /\ mode = "ingest"
    /\ pc = "run_ingestion"
    /\ urlArg = <<>>
    /\ url = <<>>
    /\ retries = 0
    /\ delay = 0
    /\ attempt = 0
    /\ trace = <<>>
    /\ served \in Archives
    /\ \E raw \in {NoFile, Partial, Zip(<<BCsv, ACsv>>)}, dvc \in {NoFile, Zip(<<BCsv>>)} :
          /\ fs = InitFs(raw, dvc)
          /\ dirs = InitDirs(raw, dvc)
    /\ fs0 = fs
    /\ dlResult = "none"
    /\ conf \in [source_url : SourceUrls, local_enabled : BOOLEAN, s3_enabled : BOOLEAN]
    /\ handler \in BOOLEAN
    /\ InitIdleIngestion

\* no handler scope is in use
InitIdleScope ==
    /\ hKind = "S3Handler"
    /\ scPc = "outside"
    /\ bound = "nothing"
    /\ enters = 0
    /\ exits = 0
    /\ closeCalls = 0
    /\ bodyErr = "none"
    /\ closeErr = FALSE
    /\ escaped = "none"
    /\ ops = 0

EmptySplit == [train |-> <<>>, test |-> <<>>]
EmptyOut == [train |-> <<>>, val |-> <<>>, test |-> <<>>]

\* no transformation is running
InitIdleSplit ==
    /\ tconf = [train_size |-> 0, val_size |-> 0, test_size |-> 0,
                has_seed |-> FALSE, random_state |-> 0]
    /\ nrows = 0
    /\ npState = 0
    /\ spPc = "done"
    /\ exec = 0
    /\ train_valtest = EmptySplit
    /\ val_test = EmptySplit
    /\ out = EmptyOut
    /\ out1 = EmptyOut
    /\ spResult = "none"
    /\ spResult1 = "none"

\* neither download_file nor run_ingestion is running
InitIdleMain ==
    /\ mode = "idle"
    /\ pc = "done"
    /\ urlArg = <<>>
    /\ url = <<>>
    /\ retries = 0
    /\ delay = 0
    /\ attempt = 0
    /\ trace = <<>>
    /\ served = NoFile
    /\ fs = InitFs(NoFile, NoFile)
    /\ fs0 = fs
    /\ dirs = {}
    /\ dlResult = "none"
    /\ conf = NoConf
    /\ handler = FALSE
    /\ InitIdleIngestion

\* no handler operation has been called
NoUriResult == [kind |-> "none", error |-> "none", cause |-> "none",
                bucket |-> <<>>, key |-> <<>>]
InitIdleUri ==
    /\ s3_uri = <<>>
    /\ uriPc = "done"
    /\ uriOp = "none"
    /\ uriResult = NoUriResult
    /\ getCalls = <<>>

\* no configuration manager is in use
NoCmResult == [op |-> "none", kind |-> "none", error |-> "none", cause |-> "none"]
InitIdleConfig ==
    /\ clock = 0
    /\ timestamp_cache = None
    /\ global_timestamp = None
    /\ docs = [config |-> "missing", params |-> "missing"]
    /\ stamps = <<>>
    /\ managers = <<>>
    /\ artRoots = {}
    /\ cmResult = NoCmResult

\* the two runs
Runs == {1, 2}
InitIdleRuns ==
    /\ rClock = 0
    /\ runPc = [r \in Runs |-> "done"]
    /\ runRoot = [r \in Runs |-> None]
    /\ rawFiles = <<>>
    /\ runRead = [r \in Runs |-> 0]

\* the fields of a DataTransformationArtifact (artifact_entity.py 38-46)
TArtifactFields == {"train_filepath", "val_filepath", "test_filepath",
                    "train_s3_uri", "val_s3_uri", "test_s3_uri"}
TLocalFields == {"train_filepath", "val_filepath", "test_filepath"}
TRemoteFields == {"train_s3_uri", "val_s3_uri", "test_s3_uri"}
EmptyTPaths == [f \in TArtifactFields |-> None]
Partitions == {"train", "val", "test"}

\* no pipeline is running
InitIdlePipeline ==
    /\ plPc = "idle"
    /\ plResult = "none"
    /\ plCause = "none"
    /\ tStarted = 0
    /\ tHandler = FALSE
    /\ snap = <<>>
    /\ tdir = FALSE
    /\ tfs = {}
    /\ ts3 = {}
    /\ tartifact = EmptyTPaths

\* no entity object is under test
InitIdleEntity ==
    /\ objClass = "none"
    /\ objFields = <<>>
    /\ objBuilt = <<>>
    /\ setResult = "none"

\* no thread has called get_utc_timestamp
Threads == 1..MaxThreads
InitIdleThreads ==
    /\ thPc = [t \in Threads |-> "done"]
    /\ thLocal = [t \in Threads |-> None]
    /\ thRet = [t \in Threads |-> None]
    /\ cacheWrites = <<>>

\* nothing is being tokenized
InitIdleTokenize ==
    /\ splits = [p \in Partitions |-> <<>>]
    /\ max_input_length = 0
    /\ max_target_length = 0
    /\ tokPc = "done"
    /\ tokenized = [p \in Partitions |-> <<>>]

\* sync_directory has not been called
NoSyncResult == [op |-> "none", kind |-> "none", chain |-> <<>>]
InitIdleSync ==
    /\ local_dir = "absent"
    /\ tree = {}
    /\ unreadable = {}
    /\ listing = <<>>
    /\ s3_prefix = <<>>
    /\ syncPc = "done"
    /\ todo = <<>>
    /\ uploads = <<>>
    /\ syncResult = NoSyncResult

\* no stream operation has been called
InitIdleStream ==
    /\ bucket_name = <<>>
    /\ s3_key = <<>>
    /\ putCalls = <<>>

InitIdleMore == InitIdleThreads /\ InitIdleTokenize /\ InitIdleSync /\ InitIdleStream

InitIdleExt == InitIdleUri /\ InitIdleConfig /\ InitIdleRuns /\ InitIdleEntity
               /\ InitIdleMore

Init == (InitDownload \/ InitIngest) /\ InitIdleScope /\ InitIdleSplit /\ InitIdleExt
        /\ InitIdlePipeline

(***************************************************************************)
(* download_file (core.py 274-308)                                         *)
(***************************************************************************)
\* run_ingestion going from the download straight to _persist_data
AfterDownload_skips_extract == IF mode = "ingest" THEN "persist" ELSE "done"

\* where control goes when download_file returns
AfterDownload == IF mode = "ingest" THEN "extract" ELSE "done"

\* download_file without the already-exists short-circuit of lines 283-285
download_file_enter_no_skip ==
    /\ pc = "call"
    /\ url' = RewriteUrl(url)
    /\ dirs' = dirs \cup {ParentDir("raw_filepath")}
    /\ attempt' = 1
    /\ pc' = "loop"
    /\ UNCHANGED <<aux, mode, urlArg, retries, delay, trace, served, fs, fs0, cause, dlResult>>
    /\ UNCHANGED ingVars

\* lines 279-287: rewrite the URL, skip if the destination exists, else mkdir
download_file_enter ==
    /\ pc = "call"
    /\ url' = RewriteUrl(url)
    /\ IF Exists(fs["raw_filepath"])
       THEN /\ dlResult' = "returned"
            /\ pc' = AfterDownload
            /\ UNCHANGED <<dirs, attempt>>
       ELSE /\ dirs' = dirs \cup {ParentDir("raw_filepath")}
            /\ attempt' = 1
            /\ pc' = "loop"
            /\ UNCHANGED dlResult
    /\ UNCHANGED <<aux, mode, urlArg, retries, delay, trace, served, fs, fs0, cause>>
    /\ UNCHANGED ingVars

\* line 289: range(1, retries + 1) is exhausted, the function falls off its end
download_file_loop_end ==
    /\ pc = "loop"
    /\ attempt > retries
    /\ dlResult' = "returned"
    /\ pc' = AfterDownload
    /\ UNCHANGED <<aux, mode, urlArg, url, retries, delay, attempt, trace, served, fs, fs0,
                   dirs, cause>>
    /\ UNCHANGED ingVars

\* lines 291-300: the request succeeds and the payload is written in full
download_file_attempt_ok ==
    /\ pc = "loop"
    /\ attempt <= retries
    /\ trace' = Append(trace, Get(url, "ok"))
    /\ fs' = [fs EXCEPT !["raw_filepath"] = served]
    /\ dlResult' = "returned"
    /\ pc' = AfterDownload
    /\ UNCHANGED <<aux, mode, urlArg, url, retries, delay, attempt, served, fs0, dirs, cause>>
    /\ UNCHANGED ingVars

\* lines 302-308: what the except branch does after a failed attempt; in
\* run_ingestion the TextSummarizerError is caught and wrapped again (122-123)
AfterFailure(tr) ==
    IF attempt < retries
    THEN /\ trace' = Append(tr, Sleep(delay))
         /\ attempt' = attempt + 1
         /\ UNCHANGED <<pc, dlResult, cause, ingResult>>
    ELSE /\ trace' = tr
         /\ dlResult' = "raised"
         /\ cause' = "download"
         /\ pc' = "done"
         /\ ingResult' = IF mode = "ingest" THEN "raised" ELSE ingResult
         /\ UNCHANGED attempt

\* lines 292-293: requests.get or raise_for_status raises
download_file_attempt_fail_request ==
    /\ pc = "loop"
    /\ attempt <= retries
    /\ AfterFailure(Append(trace, Get(url, "fail")))
    /\ UNCHANGED <<aux, mode, urlArg, url, retries, delay, served, fs, fs0, dirs>>
    /\ UNCHANGED <<conf, handler, df, paths, s3, artifact>>

\* lines 295-297: the file was opened "wb" and the stream broke while writing
download_file_attempt_fail_write ==
    /\ pc = "loop"
    /\ attempt <= retries
    /\ fs' = [fs EXCEPT !["raw_filepath"] = Partial]
    /\ AfterFailure(Append(trace, Get(url, "fail")))
    /\ UNCHANGED <<aux, mode, urlArg, url, retries, delay, served, fs0, dirs>>
    /\ UNCHANGED <<conf, handler, df, paths, s3, artifact>>

(***************************************************************************)
(* DataIngestion (data_ingestion.py)                                       *)
(***************************************************************************)
\* run_ingestion raises: every failure is wrapped in a TextSummarizerError
Raise(c) ==
    /\ ingResult' = "raised"
    /\ cause' = c
    /\ pc' = "done"

\* line 114: download_file(url=source_url, raw_filepath=raw_filepath)
run_ingestion_enter ==
    /\ pc = "run_ingestion"
    /\ urlArg' = conf.source_url
    /\ url' = conf.source_url
    /\ retries' = DefaultRetries
    /\ delay' = DefaultDelay
    /\ fs0' = fs
    /\ pc' = "call"
    /\ UNCHANGED <<aux, mode, attempt, trace, served, fs, dirs, dlResult, cause>>
    /\ UNCHANGED ingVars

\* every member taken, whatever its name
CsvFiles_unfiltered(zip) == zip.entries

\* line 41: the members whose name ends with ".csv", in archive order
CsvFiles(zip) == SelectSeq(zip.entries, EndsWithCsv)

\* _extract_zip_to_dataframe (32-55)
extract_zip_to_dataframe ==
    /\ pc = "extract"
    /\ LET zip == fs["raw_filepath"]
       IN  IF zip.kind # "zip"
           THEN Raise("bad_zip") /\ UNCHANGED df
           ELSE IF CsvFiles(zip) = <<>>
           THEN Raise("no_csv") /\ UNCHANGED df
           ELSE /\ df' = Table(CsvFiles(zip)[1])
                /\ pc' = "persist"
                /\ UNCHANGED <<ingResult, cause>>
    /\ UNCHANGED <<aux, mode, served, fs, fs0, dirs, conf, handler, paths, s3, artifact>>
    /\ UNCHANGED dlVars

\* the local leg run without looking at conf.local_enabled
persist_data_local_unguarded ==
    /\ pc = "persist"
    /\ dirs' = dirs \cup {ParentDir("dvc_raw_filepath"), ParentDir("ingested_filepath")}
    /\ fs' = [fs EXCEPT !["dvc_raw_filepath"] = fs["raw_filepath"],
                        !["ingested_filepath"] = Csv(df)]
    /\ paths' = [EmptyPaths EXCEPT !["raw_filepath"] = LocalPath("raw_filepath"),
                                   !["dvc_raw_filepath"] = LocalPath("dvc_raw_filepath"),
                                   !["ingested_filepath"] = LocalPath("ingested_filepath")]
    /\ pc' = IF conf.s3_enabled /\ handler THEN "upload_raw" ELSE "return"
    /\ UNCHANGED <<aux, mode, served, fs0, conf, handler, df, s3, artifact, ingResult, cause>>
    /\ UNCHANGED dlVars

\* _persist_data, the local leg (72-83)
persist_data_local ==
    /\ pc = "persist"
    /\ IF conf.local_enabled
       THEN /\ dirs' = dirs \cup {ParentDir("dvc_raw_filepath"), ParentDir("ingested_filepath")}
            /\ fs' = [fs EXCEPT !["dvc_raw_filepath"] = fs["raw_filepath"],
                                !["ingested_filepath"] = Csv(df)]
            /\ paths' = [EmptyPaths EXCEPT !["raw_filepath"] = LocalPath("raw_filepath"),
                                           !["dvc_raw_filepath"] = LocalPath("dvc_raw_filepath"),
                                           !["ingested_filepath"] = LocalPath("ingested_filepath")]
       ELSE /\ paths' = EmptyPaths
            /\ UNCHANGED <<dirs, fs>>
    /\ pc' = IF conf.s3_enabled /\ handler THEN "upload_raw" ELSE "return"
    /\ UNCHANGED <<aux, mode, served, fs0, conf, handler, df, s3, artifact, ingResult, cause>>
    /\ UNCHANGED dlVars

\* S3Handler.upload_file (63-91): the value handed back to the caller
UploadFileResult(key) == None

\* S3Handler.upload_file of the file at `p` to its key, stored in `field`
UploadFile(p, field, nextPc) ==
    \/ /\ ~Exists(fs[p])
       /\ Raise("file_not_found")
       /\ UNCHANGED <<s3, paths>>
    \/ /\ Exists(fs[p])
       /\ Raise("client_error")
       /\ UNCHANGED <<s3, paths>>
    \/ /\ Exists(fs[p])
       /\ s3' = [s3 EXCEPT ![S3Key(p)] = fs[p]]
       /\ paths' = [paths EXCEPT ![field] = UploadFileResult(S3Key(p))]
       /\ pc' = nextPc
       /\ UNCHANGED <<ingResult, cause>>

\* line 88: handler.upload_file(conf.raw_filepath, conf.raw_s3_key)
persist_data_upload_raw ==
    /\ pc = "upload_raw"
    /\ UploadFile("raw_filepath", "raw_s3_uri", "upload_dvc")
    /\ UNCHANGED <<aux, mode, served, fs, fs0, dirs, conf, handler, df, artifact>>
    /\ UNCHANGED dlVars

\* line 91: handler.upload_file(conf.dvc_raw_filepath, conf.dvc_raw_s3_key)
persist_data_upload_dvc ==
    /\ pc = "upload_dvc"
    /\ UploadFile("dvc_raw_filepath", "dvc_raw_s3_uri", "stream_csv")
    /\ UNCHANGED <<aux, mode, served, fs, fs0, dirs, conf, handler, df, artifact>>
    /\ UNCHANGED dlVars

\* line 94: handler.stream_csv(df, conf.ingested_s3_key)  (s3_handler.py 147-172)
persist_data_stream_csv ==
    /\ pc = "stream_csv"
    /\ \/ /\ Raise("client_error")
          /\ UNCHANGED <<s3, paths>>
       \/ /\ s3' = [s3 EXCEPT ![S3Key("ingested_filepath")] = Csv(df)]
          /\ paths' = [paths EXCEPT !["ingested_s3_uri"] = S3Uri(S3Key("ingested_filepath"))]
          /\ pc' = "return"
          /\ UNCHANGED <<ingResult, cause>>
    /\ UNCHANGED <<aux, mode, served, fs, fs0, dirs, conf, handler, df, artifact>>
    /\ UNCHANGED dlVars

\* lines 118-120: DataIngestionArtifact(**persisted) is returned
run_ingestion_return ==
    /\ pc = "return"
    /\ artifact' = paths
    /\ ingResult' = "returned"
    /\ pc' = "done"
    /\ UNCHANGED <<aux, mode, served, fs, fs0, dirs, conf, handler, df, paths, s3, cause>>
    /\ UNCHANGED dlVars

Next ==
    \/ download_file_enter
    \/ download_file_loop_end
    \/ download_file_attempt_ok
    \/ download_file_attempt_fail_request
    \/ download_file_attempt_fail_write
    \/ run_ingestion_enter
    \/ extract_zip_to_dataframe
    \/ persist_data_local
    \/ persist_data_upload_raw
    \/ persist_data_upload_dvc
    \/ persist_data_stream_csv
    \/ run_ingestion_return

Spec == Init /\ [][Next]_vars

(***************************************************************************)
(* A storage handler used as a context manager:                            *)
(*     with handler as h: <body>                                           *)
(* DBHandler.__enter__/__exit__ (base_handler.py 18-30) are what a backend *)
(* inherits; S3Handler overrides both (s3_handler.py 46-53).               *)
(***************************************************************************)
HandlerKinds == {"DBHandler", "S3Handler"}

\* DBHandler.__enter__ (18-20) and S3Handler.__enter__ (46-49): return self
HandlerEnter(kind) == "self"

\* whether __exit__ calls self.close(): DBHandler.__exit__ (22-30) does,
\* S3Handler.__exit__ (51-53) only logs
ExitCallsClose(kind) == kind = "DBHandler"

InitScope ==
    /\ hKind \in HandlerKinds
    /\ scPc = "outside"
    /\ bound = "nothing"
    /\ enters = 0
    /\ exits = 0
    /\ closeCalls = 0
    /\ bodyErr = "none"
    /\ closeErr = FALSE
    /\ escaped = "none"
    /\ ops = 0
    /\ InitIdleMain
    /\ InitIdleSplit
    /\ InitIdleExt
    /\ InitIdlePipeline

\* the with statement calls __enter__ and binds its result
scope_enter ==
    /\ scPc = "outside"
    /\ enters < MaxScopes
    /\ bound' = HandlerEnter(hKind)
    /\ enters' = enters + 1
    /\ scPc' = "inside"
    /\ ops' = 0
    /\ escaped' = "none"
    /\ UNCHANGED <<hKind, exits, closeCalls, bodyErr, closeErr>>
    /\ UNCHANGED <<mainVars, splitVars, extVars, plVars>>

\* an operation of the body completes
scope_body_op ==
    /\ scPc = "inside"
    /\ ops < MaxOps
    /\ ops' = ops + 1
    /\ UNCHANGED <<hKind, scPc, bound, enters, exits, closeCalls, bodyErr, closeErr, escaped>>
    /\ UNCHANGED <<mainVars, splitVars, extVars, plVars>>

\* __exit__ returning a true value, which makes the with statement drop the
\* error of the body
ExitSuppresses_true(kind) == TRUE

\* whether the value __exit__ returns is true: both DBHandler.__exit__
\* (22-30) and S3Handler.__exit__ (51-53) end without a return statement
ExitSuppresses(kind) == FALSE

\* what leaves the with statement: the TextSummarizerError that __exit__
\* raises when close() failed (26-30), else the error of the body unless
\* __exit__ returned a true value
ExitResult(kind, err, closeFailed) ==
    IF closeFailed THEN "close_error"
    ELSE IF err # "none" /\ ExitSuppresses(kind) THEN "none"
    ELSE err

\* __exit__ runs with the error `err` of the body ("none" on a normal exit);
\* close(), when called, returns or raises. __exit__ returns None, so the
\* error of the body is re-raised, unless __exit__ itself raised.
HandlerExit(err) ==
    /\ scPc = "inside"
    /\ scPc' = "outside"
    /\ exits' = exits + 1
    /\ bodyErr' = err
    /\ IF ExitCallsClose(hKind)
       THEN /\ closeCalls' = closeCalls + 1
            /\ closeErr' \in BOOLEAN
       ELSE /\ closeCalls' = closeCalls
            /\ closeErr' = FALSE
    /\ escaped' = ExitResult(hKind, err, closeErr')
    /\ UNCHANGED <<hKind, bound, enters, ops>>
    /\ UNCHANGED <<mainVars, splitVars, extVars, plVars>>

\* the body ends normally
scope_exit_normal == HandlerExit("none")

\* an operation of the body raises
scope_exit_error == HandlerExit("body_error")

NextScope ==
    \/ scope_enter
    \/ scope_body_op
    \/ scope_exit_normal
    \/ scope_exit_error

SpecScope == InitScope /\ [][NextScope]_vars

\* C7: for every backend, S3Handler included, the with statement binds the
\* handler itself, and every exit from the scope, normal or by an error of
\* the body, has called the handler's close() exactly once.
C7_ExitCallsCloseOnce ==
    /\ scPc = "inside" => bound = "self"
    /\ closeCalls = exits

(***************************************************************************)
(* DataTransformation._split_and_tokenize (data_transformation.py 50-68).  *)
(* The dataset is the sequence <<1, ..., nrows>> of its record numbers.    *)
(* The ratios are held in tenths: train_size = 8 stands for 0.8.           *)
(* datasets.Dataset.train_test_split(test_size=<float>, seed=s):           *)
(*   - an empty dataset is returned as both halves;                        *)
(*   - test_size <= 0 or >= 1 raises ValueError;                           *)
(*   - n_test = ceil(test_size * n), n_train = n - n_test, and n_train = 0 *)
(*     raises ValueError;                                                  *)
(*   - with seed None the seed is drawn from numpy's global generator,     *)
(*     which advances; otherwise a fresh generator is made from the seed;  *)
(*   - permutation = generator.permutation(n), test = permutation[:n_test],*)
(*     train = permutation[n_test:n_test + n_train].                       *)
(***************************************************************************)
TrainTenths == 6..10
ValTenths == 0..2
TestTenths == 0..2

CeilDiv(a, b) == (a + b - 1) \div b

\* ceil(x * n) in IEEE double arithmetic exceeds the exact ceiling by one when
\* the rounded product lands just above an integer.  For the ratios above and
\* n <= 12 that happens once: 1.0 - 0.7 = 0.30000000000000004, and
\* 0.30000000000000004 * 10 = 3.0000000000000004, whose ceiling is 4.
FloatExcess(train, n) == IF train = 7 /\ n = 10 THEN 1 ELSE 0

\* the split called with test_size=train_size
HeldOutCount_train_size(train, n) == CeilDiv(train * n, 10)

\* line 54: ceil((1.0 - train_size) * n)
HeldOutCount(train, n) == CeilDiv((10 - train) * n, 10) + FloatExcess(train, n)

\* line 54: test_size = 1.0 - train_size lies strictly between 0 and 1
HeldOutSizeValid(train) == 0 < 10 - train /\ 10 - train < 10

\* line 58: ceil(test_size / (test_size + val_size) * m)
TestCount(test, val, m) == CeilDiv(test * m, test + val)

\* line 58: the quotient lies strictly between 0 and 1
TestSizeValid(test, val) == 0 < test /\ test < test + val

\* a stand-in for numpy's bit generator: a full-period congruential step
LcgNext(x) == (13 * x + 7) % 64
\* np.random.default_rng(seed)
SeededState(seed) == (5 * seed + 3) % 64

RECURSIVE Shuffle(_, _, _)
\* Generator.permutation: Fisher-Yates over positions i, i-1, ..., 2
Shuffle(seq, i, state) ==
    IF i <= 1 THEN seq
    ELSE LET j == (state % i) + 1
             swapped == [seq EXCEPT ![i] = seq[j], ![j] = seq[i]]
         IN  Shuffle(swapped, i - 1, LcgNext(state))

Permutation(n, state) == Shuffle([k \in 1..n |-> k], n, state)

\* the call made without its seed argument
SeedArg_omitted == [given |-> FALSE, seed |-> 0]

\* lines 55 and 59: seed=self.config.random_state (None when not configured)
SeedArg == [given |-> tconf.has_seed, seed |-> tconf.random_state]

\* the generator state train_test_split shuffles with
SplitState == IF SeedArg.given THEN SeededState(SeedArg.seed) ELSE npState
\* numpy's global generator after the call
GlobalAfterSplit == IF SeedArg.given THEN npState ELSE LcgNext(npState)

Failed == [ok |-> FALSE, train |-> <<>>, test |-> <<>>]

\* Dataset.train_test_split on `rows` with n_test = nTest
TrainTestSplit(rows, sizeValid, nTest, state) ==
    LET n == Len(rows)
        perm == Permutation(n, state)
    IN  IF n = 0 THEN [ok |-> TRUE, train |-> rows, test |-> rows]
        ELSE IF ~sizeValid \/ n - nTest = 0 THEN Failed
        ELSE [ok |-> TRUE,
              test |-> [k \in 1..nTest |-> rows[perm[k]]],
              train |-> [k \in 1..(n - nTest) |-> rows[perm[nTest + k]]]]

\* lines 53-56
FirstSplit(rows) ==
    TrainTestSplit(rows, HeldOutSizeValid(tconf.train_size),
                   HeldOutCount(tconf.train_size, Len(rows)), SplitState)

\* the second split made on the whole dataset instead of the held-out part
SecondSplit_whole(held) ==
    IF tconf.test_size + tconf.val_size = 0 THEN Failed
    ELSE TrainTestSplit([k \in 1..nrows |-> k],
                        TestSizeValid(tconf.test_size, tconf.val_size),
                        TestCount(tconf.test_size, tconf.val_size, nrows), SplitState)

\* lines 57-60: the held-out records are split again
SecondSplit(held) ==
    IF tconf.test_size + tconf.val_size = 0 THEN Failed
    ELSE TrainTestSplit(held, TestSizeValid(tconf.test_size, tconf.val_size),
                        TestCount(tconf.test_size, tconf.val_size, Len(held)), SplitState)

\* Dataset.map(_convert_examples_to_features, batched=True): one feature
\* record per input record, in order
Features(r) == [row |-> r]
Map(rows) == [k \in 1..Len(rows) |-> Features(rows[k])]

Dataset == [k \in 1..nrows |-> k]

InitSplit ==
    /\ tconf \in [train_size : TrainTenths, val_size : ValTenths, test_size : TestTenths,
                  has_seed : {TRUE}, random_state : 0..MaxSeed]
               \cup [train_size : TrainTenths, val_size : ValTenths, test_size : TestTenths,
                     has_seed : {FALSE}, random_state : {0}]
    /\ nrows \in 0..MaxRows
    /\ npState \in {0, 1}
    /\ spPc = "split"
    /\ exec = 1
    /\ train_valtest = EmptySplit
    /\ val_test = EmptySplit
    /\ out = EmptyOut
    /\ out1 = EmptyOut
    /\ spResult = "none"
    /\ spResult1 = "none"
    /\ InitIdleMain
    /\ InitIdleScope
    /\ InitIdleExt
    /\ InitIdlePipeline

\* lines 67-68: any error is wrapped and raised
SplitRaise ==
    /\ spResult' = "raised"
    /\ spPc' = "done"

\* lines 53-56: dataset.train_test_split(test_size=1.0 - train_size, seed=...)
split_train_valtest ==
    /\ spPc = "split"
    /\ LET r == FirstSplit(Dataset)
       IN  IF r.ok
           THEN /\ train_valtest' = [train |-> r.train, test |-> r.test]
                /\ npState' = GlobalAfterSplit
                /\ spPc' = "val_test"
                /\ UNCHANGED spResult
           ELSE /\ SplitRaise
                /\ UNCHANGED <<train_valtest, npState>>
    /\ UNCHANGED <<tconf, nrows, exec, val_test, out, out1, spResult1>>
    /\ UNCHANGED <<mainVars, scopeVars, extVars, plVars>>

\* lines 57-60: train_valtest["test"].train_test_split(...)
split_val_test ==
    /\ spPc = "val_test"
    /\ LET r == SecondSplit(train_valtest.test)
       IN  IF r.ok
           THEN /\ val_test' = [train |-> r.train, test |-> r.test]
                /\ npState' = GlobalAfterSplit
                /\ spPc' = "map"
                /\ UNCHANGED spResult
           ELSE /\ SplitRaise
                /\ UNCHANGED <<val_test, npState>>
    /\ UNCHANGED <<tconf, nrows, exec, train_valtest, out, out1, spResult1>>
    /\ UNCHANGED <<mainVars, scopeVars, extVars, plVars>>

\* lines 62-66: the three partitions are tokenized and returned
split_map_return ==
    /\ spPc = "map"
    /\ out' = [train |-> Map(train_valtest.train),
               val |-> Map(val_test.train),
               test |-> Map(val_test.test)]
    /\ spResult' = "returned"
    /\ spPc' = "done"
    /\ UNCHANGED <<tconf, nrows, npState, exec, train_valtest, val_test, out1, spResult1>>
    /\ UNCHANGED <<mainVars, scopeVars, extVars, plVars>>

\* _split_and_tokenize is executed a second time on the same dataset
split_again ==
    /\ spPc = "done"
    /\ exec = 1
    /\ exec' = 2
    /\ out1' = out
    /\ spResult1' = spResult
    /\ out' = EmptyOut
    /\ spResult' = "none"
    /\ train_valtest' = EmptySplit
    /\ val_test' = EmptySplit
    /\ spPc' = "split"
    /\ UNCHANGED <<tconf, nrows, npState>>
    /\ UNCHANGED <<mainVars, scopeVars, extVars, plVars>>

NextSplit ==
    \/ split_train_valtest
    \/ split_val_test
    \/ split_map_return
    \/ split_again

SpecSplit == InitSplit /\ [][NextSplit]_vars

Rows(part) == {part[k].row : k \in 1..Len(part)}

\* C8: when _split_and_tokenize succeeds, train, val and test are pairwise
\* disjoint, hold no record twice, and together hold every input record, so
\* their sizes add up to the size of the input.
C8_SplitIsPartition ==
    spResult = "returned" =>
        /\ Rows(out.train) \cap Rows(out.val) = {}
        /\ Rows(out.train) \cap Rows(out.test) = {}
        /\ Rows(out.val) \cap Rows(out.test) = {}
        /\ Rows(out.train) \cup Rows(out.val) \cup Rows(out.test) = 1..nrows
        /\ Len(out.train) + Len(out.val) + Len(out.test) = nrows

C8_Witness ==
    /\ spResult = "returned"
    /\ nrows = MaxRows
    /\ Len(out.train) > 1 /\ Len(out.val) > 1 /\ Len(out.test) > 1

\* C9: the first stage holds out the fraction 1 - train_size of the n records,
\* rounded up (by at most one record), the second stage gives test the
\* fraction test_size / (test_size + val_size) of the held-out records, rounded
\* up, and val the rest; n = 10 with 0.8 / 0.1 / 0.1 gives 8 / 1 / 1.
C9_TwoStageSizes ==
    (spResult = "returned" /\ nrows > 0) =>
        LET held == Len(out.val) + Len(out.test)
            tv == tconf.test_size + tconf.val_size
        IN  /\ Len(out.train) = nrows - held
            /\ 10 * (held - 1) <= (10 - tconf.train_size) * nrows
            /\ (10 - tconf.train_size) * nrows <= 10 * held
            /\ tv * (Len(out.test) - 1) < tconf.test_size * held
            /\ tconf.test_size * held <= tv * Len(out.test)
            /\ (nrows = 10 /\ tconf.train_size = 8 /\ tconf.val_size = 1 /\ tconf.test_size = 1)
                  => (Len(out.train) = 8 /\ Len(out.val) = 1 /\ Len(out.test) = 1)

C9_Witness ==
    /\ spResult = "returned"
    /\ nrows = 10 /\ tconf.train_size = 8 /\ tconf.val_size = 1 /\ tconf.test_size = 1
    /\ Len(out.train) = 8

\* C10: a second execution of _split_and_tokenize on the same dataset, with
\* the same ratios and the same random_state seed, ends as the first did and
\* puts every record in the same partition.
C10_SplitDeterministic ==
    (exec = 2 /\ spPc = "done" /\ tconf.has_seed) =>
        /\ spResult = spResult1
        /\ out = out1

C10_Witness ==
    /\ exec = 2 /\ spPc = "done" /\ tconf.has_seed
    /\ spResult = "returned"
    /\ Len(out.train) > 1 /\ Len(out.val) > 1 /\ Len(out.test) > 1
    /\ out.train # Map([k \in 1..Len(out.train) |-> k])

(***************************************************************************)
(* Properties of download_file and of DataIngestion, checked under Spec.   *)
(***************************************************************************)
Gets(tr) == SelectSeq(tr, LAMBDA e : e.ev = "get")
NoAttemptSucceeded(tr) == \A i \in 1..Len(tr) : tr[i].res # "ok"

\* C1: when the destination file exists at the call, download_file returns
\* normally, has made no network request and no sleep, and the file keeps the
\* content it had, whatever the URL and the value of retries.
C1_SkipWhenDestinationExists ==
    (Exists(fs0["raw_filepath"]) /\ pc \notin {"run_ingestion", "call"})
        => /\ dlResult = "returned"
           /\ trace = <<>>
           /\ fs["raw_filepath"] = fs0["raw_filepath"]

C1_Witness ==
    /\ mode = "download"
    /\ pc = "done"
    /\ fs0["raw_filepath"] = Partial
    /\ dlResult = "returned"
    /\ HasGithub(urlArg) /\ HasBlob(urlArg)
    /\ retries = 0

\* the trace of n failed attempts: n requests with a sleep of d between
\* consecutive ones and none after the last
RECURSIVE FailedTrace(_, _, _)
FailedTrace(n, u, d) ==
    IF n <= 0 THEN <<>>
    ELSE IF n = 1 THEN <<Get(u, "fail")>>
    ELSE FailedTrace(n - 1, u, d) \o <<Sleep(d), Get(u, "fail")>>

\* C2: with the destination missing, a call in which every attempt fails makes
\* exactly `retries` requests, sleeps `delay` between consecutive ones only,
\* and raises; a call in which an attempt succeeds returns right after it.
C2_RetriesThenRaises ==
    (mode = "download" /\ pc = "done" /\ ~Exists(fs0["raw_filepath"]))
        => IF NoAttemptSucceeded(trace)
           THEN /\ Len(Gets(trace)) = retries
                /\ trace = FailedTrace(retries, url, delay)
                /\ dlResult = "raised"
           ELSE /\ dlResult = "returned"
                /\ trace[Len(trace)].res = "ok"
                /\ \A i \in 1..(Len(trace) - 1) : trace[i].res # "ok"

\* the raw-content form of a GitHub blob URL: its "/blob/" marker, the first
\* "/blob/" of the URL, replaced by "/raw/"
FirstBlob(u) == CHOOSE i \in 2..(Len(u) - 1) : u[i] = "blob" /\ \A j \in 2..(i - 1) : u[j] # "blob"
RawForm(u) == [u EXCEPT ![FirstBlob(u)] = "raw"]

\* C3: every network request of download_file is made on the raw-content form
\* of the URL passed in when that is a blob URL, and on the URL exactly as
\* passed in otherwise.
C3_BlobUrlRewritten ==
    \A i \in 1..Len(trace) :
        trace[i].ev = "get" =>
            trace[i].url = IF HasGithub(urlArg) /\ HasBlob(urlArg)
                           THEN RawForm(urlArg) ELSE urlArg

\* C4: in the artifact of a successful run_ingestion the three local fields
\* are non-null exactly when local_enabled, and the three remote fields are
\* non-null exactly when s3_enabled and a handler was supplied.
C4_FieldsNullOnlyWhenLegDisabled ==
    (mode = "ingest" /\ ingResult = "returned")
        => /\ \A f \in LocalFields : (artifact[f] # None) <=> conf.local_enabled
           /\ \A f \in RemoteFields : (artifact[f] # None) <=> (conf.s3_enabled /\ handler)

\* the archive at the destination after the download is one with a CSV member
ArchiveHasCsv ==
    /\ dlResult = "returned"
    /\ fs["raw_filepath"].kind = "zip"
    /\ CsvFiles(fs["raw_filepath"]) # <<>>

\* C5: with local_enabled and s3_enabled both false, run_ingestion on a
\* downloadable archive holding a CSV returns an artifact with six null
\* fields, and writes no DVC copy, no ingested CSV and no remote object.
C5_BothLegsDisabled ==
    (mode = "ingest" /\ ~conf.local_enabled /\ ~conf.s3_enabled)
        => /\ fs["dvc_raw_filepath"] = fs0["dvc_raw_filepath"]
           /\ fs["ingested_filepath"] = NoFile
           /\ \A k \in DOMAIN s3 : s3[k] = NoFile
           /\ (pc = "done" /\ ArchiveHasCsv)
                 => (ingResult = "returned" /\ \A f \in ArtifactFields : artifact[f] = None)

C5_Witness ==
    /\ mode = "ingest"
    /\ ~conf.local_enabled /\ ~conf.s3_enabled /\ handler
    /\ pc = "done"
    /\ ingResult = "returned"
    /\ Len(trace) > 1
    /\ artifact = EmptyPaths

\* C6: remote-only (local_enabled false, s3_enabled true, handler supplied) on
\* a filesystem without the DVC copy: unless the network fails, run_ingestion
\* on a downloadable archive holding a CSV returns an artifact.
C6_RemoteOnlySucceeds ==
    (/\ mode = "ingest"
     /\ ~conf.local_enabled /\ conf.s3_enabled /\ handler
     /\ ~Exists(fs0["dvc_raw_filepath"])
     /\ pc = "done"
     /\ ArchiveHasCsv
     /\ cause # "client_error")
        => ingResult = "returned"

(***************************************************************************)
(* S3Handler._parse_s3_uri (s3_handler.py 216-231) and the operations that *)
(* call it: load_csv (129-145), load_npy (293-317), load_object (319-343). *)
(* A URI is the sequence of its characters.                                *)
(***************************************************************************)
UriChars == {"/", "b", "k"}
S3Prefix == <<"s", "3", ":", "/", "/">>
\* how an s3_uri argument may begin
UriHeads == {<<>>, S3Prefix, <<"s", "3", ":", "/">>, <<"s", "3", ":">>,
             <<"S", "3", ":", "/", "/">>, <<"b", ":", "/", "/">>}
S3Uris == {h \o t : h \in UriHeads, t \in SeqsUpTo(UriChars, MaxKey)}

\* str.startswith
StartsWith(str, pre) == Len(str) >= Len(pre) /\ SubSeq(str, 1, Len(pre)) = pre

\* str.rsplit("/", 1): the split made at the last "/"
SplitOnce_last(str) ==
    IF \A i \in 1..Len(str) : str[i] # "/" THEN <<str>>
    ELSE LET i == CHOOSE j \in 1..Len(str) :
                      str[j] = "/" /\ \A k \in (j + 1)..Len(str) : str[k] # "/"
         IN  <<SubSeq(str, 1, i - 1), SubSeq(str, i + 1, Len(str))>>

\* str.split("/", 1): one part when there is no "/", else what precedes the
\* first "/" and what follows it
SplitOnce(str) ==
    IF \A i \in 1..Len(str) : str[i] # "/" THEN <<str>>
    ELSE LET i == CHOOSE j \in 1..Len(str) :
                      str[j] = "/" /\ \A k \in 1..(j - 1) : str[k] # "/"
         IN  <<SubSeq(str, 1, i - 1), SubSeq(str, i + 1, Len(str))>>

NoPair == [ok |-> FALSE, bucket |-> <<>>, key |-> <<>>]

\* _parse_s3_uri without the test of line 229
ParseS3Uri_unchecked_parts(u) ==
    IF ~StartsWith(u, S3Prefix) THEN NoPair
    ELSE LET parts == SplitOnce(SubSeq(u, 6, Len(u)))
         IN  [ok |-> TRUE, bucket |-> parts[1], key |-> <<>>]

\* _parse_s3_uri (226-231): the pair, or ok = FALSE for the ValueError
ParseS3Uri(u) ==
    IF ~StartsWith(u, S3Prefix) THEN NoPair
    ELSE LET parts == SplitOnce(SubSeq(u, 6, Len(u)))
         IN  IF Len(parts) # 2 THEN NoPair
             ELSE [ok |-> TRUE, bucket |-> parts[1], key |-> parts[2]]

InitUri ==
    /\ s3_uri \in S3Uris
    /\ uriPc = "call"
    /\ uriOp = "none"
    /\ uriResult = NoUriResult
    /\ getCalls = <<>>
    /\ InitIdleMain /\ InitIdleScope /\ InitIdleSplit
    /\ InitIdleConfig /\ InitIdleRuns /\ InitIdleEntity /\ InitIdlePipeline /\ InitIdleMore

UriRaised(err, c) == [kind |-> "raised", error |-> err, cause |-> c,
                      bucket |-> <<>>, key |-> <<>>]
UriReturned(r) == [kind |-> "returned", error |-> "none", cause |-> "none",
                   bucket |-> r.bucket, key |-> r.key]

\* _parse_s3_uri called on its own
parse_s3_uri ==
    /\ uriPc = "call"
    /\ uriOp' = "_parse_s3_uri"
    /\ uriResult' = IF ParseS3Uri(s3_uri).ok THEN UriReturned(ParseS3Uri(s3_uri))
                    ELSE UriRaised("ValueError", "ValueError")
    /\ uriPc' = "done"
    /\ UNCHANGED <<s3_uri, getCalls>>
    /\ UNCHANGED <<mainVars, scopeVars, splitVars, cmVars, runVars, entVars, plVars, moreVars>>

\* a load operation: parse, get_object, decode; every error is wrapped in a
\* TextSummarizerError (the except clause that ends each of them)
Load(op) ==
    /\ uriPc = "call"
    /\ uriOp' = op
    /\ uriPc' = "done"
    /\ LET r == ParseS3Uri(s3_uri)
       IN  IF ~r.ok
           THEN /\ uriResult' = UriRaised("TextSummarizerError", "ValueError")
                /\ UNCHANGED getCalls
           ELSE /\ getCalls' = Append(getCalls, [Bucket |-> r.bucket, Key |-> r.key])
                /\ \/ uriResult' = UriReturned(r)
                   \/ uriResult' = UriRaised("TextSummarizerError", "ClientError")
                   \/ uriResult' = UriRaised("TextSummarizerError", "decode_error")
    /\ UNCHANGED s3_uri
    /\ UNCHANGED <<mainVars, scopeVars, splitVars, cmVars, runVars, entVars, plVars, moreVars>>

load_csv == Load("load_csv")
load_npy == Load("load_npy")
load_object == Load("load_object")

NextUri ==
    \/ parse_s3_uri
    \/ load_csv
    \/ load_npy
    \/ load_object

SpecUri == InitUri /\ [][NextUri]_vars

\* the string begins with the scheme prefix "s3://"
HasScheme(u) ==
    Len(u) >= 5 /\ u[1] = "s" /\ u[2] = "3" /\ u[3] = ":" /\ u[4] = "/" /\ u[5] = "/"
\* a "/" follows the prefix, separating bucket from key
HasSeparator(u) == \E i \in 6..Len(u) : u[i] = "/"

\* C11: on a string without the "s3://" prefix, or without a "/" after the
\* prefix, _parse_s3_uri raises ValueError and returns no pair; load_csv,
\* load_npy and load_object raise a TextSummarizerError whose cause is that
\* ValueError, and make no get_object request.
C11_MalformedUriIsFormatError ==
    (uriPc = "done" /\ (~HasScheme(s3_uri) \/ ~HasSeparator(s3_uri))) =>
        /\ uriResult.kind = "raised"
        /\ uriResult.cause = "ValueError"
        /\ uriResult.error = IF uriOp = "_parse_s3_uri" THEN "ValueError"
                             ELSE "TextSummarizerError"
        /\ uriResult.bucket = <<>> /\ uriResult.key = <<>>
        /\ getCalls = <<>>

C11_Witness ==
    /\ uriPc = "done"
    /\ uriOp = "load_csv"
    /\ HasScheme(s3_uri) /\ ~HasSeparator(s3_uri) /\ Len(s3_uri) > 6
    /\ uriResult.kind = "raised"
    /\ uriResult.cause = "ValueError"

(***************************************************************************)
(* One process: get_utc_timestamp (timestamp.py 6-25), read_yaml (core.py  *)
(* 18-50) and ConfigurationManager (configuration.py).  The program starts *)
(* no thread, so the calls of a process happen one after the other.  The   *)
(* clock counts ticks; strftime("%Y_%m_%dT%H_%M_%SZ") keeps whole seconds. *)
(***************************************************************************)
\* what a document of the config directory may be: absent, not readable,
\* not YAML, without content, a YAML scalar or list, a mapping that lacks a
\* section the accessors read, a mapping that has them all
DocStates == {"missing", "unreadable", "unparseable", "empty", "not_mapping",
              "incomplete", "complete"}

\* timestamp.py 18, 23: the time formatted down to the second
Format(t) == <<t \div TicksPerSecond>>

\* get_utc_timestamp generating a timestamp at every call
CacheAfterCall_regenerated == Format(clock)

\* timestamp.py 22-25: _timestamp_cache after a call, which is also the value
\* the call returns
CacheAfterCall == IF timestamp_cache = None THEN Format(clock) ELSE timestamp_cache

Ok == [ok |-> TRUE, error |-> "none", cause |-> "none"]
Err(e, c) == [ok |-> FALSE, error |-> e, cause |-> c]

\* read_yaml (core.py 18-50).  Line 50, ConfigBox(content), is outside the
\* try statement: on a content that is no mapping the error of the box
\* library leaves read_yaml as it is.
ReadYaml(doc) ==
    CASE doc = "missing" -> Err("TextSummarizerError", "FileNotFoundError")
      [] doc = "unreadable" -> Err("TextSummarizerError", "OSError")
      [] doc = "unparseable" -> Err("TextSummarizerError", "YAMLError")
      [] doc = "empty" -> Err("TextSummarizerError", "ValueError")
      [] doc = "not_mapping" -> Err("BoxValueError", "BoxValueError")
      [] OTHER -> Ok

\* _load_configs (63-74): config.yaml is read first, then params.yaml
LoadConfigs == IF ~ReadYaml(docs.config).ok THEN ReadYaml(docs.config)
               ELSE ReadYaml(docs.params)

InitConfig ==
    /\ clock = 0
    /\ timestamp_cache = None
    /\ global_timestamp = None
    /\ docs \in [config : DocStates, params : DocStates]
    /\ stamps = <<>>
    /\ managers = <<>>
    /\ artRoots = {}
    /\ cmResult = NoCmResult
    /\ InitIdleMain /\ InitIdleScope /\ InitIdleSplit
    /\ InitIdleUri /\ InitIdleRuns /\ InitIdleEntity /\ InitIdlePipeline /\ InitIdleMore

\* what the actions of this section leave alone
cmRest == <<mainVars, scopeVars, splitVars, uriVars, runVars, entVars, plVars, moreVars>>

\* time passes
clock_tick ==
    /\ clock < MaxClock
    /\ clock' = clock + 1
    /\ UNCHANGED <<timestamp_cache, global_timestamp, docs, stamps, managers, artRoots,
                   cmResult>>
    /\ UNCHANGED cmRest

\* a call of get_utc_timestamp()
get_utc_timestamp ==
    /\ Len(stamps) < MaxCalls
    /\ timestamp_cache' = CacheAfterCall
    /\ stamps' = Append(stamps, [at |-> clock, value |-> CacheAfterCall])
    /\ UNCHANGED <<clock, global_timestamp, docs, managers, artRoots, cmResult>>
    /\ UNCHANGED cmRest

\* ConfigurationManager._global_timestamp after _init_artifacts (54-58)
GlobalAfterInit == IF global_timestamp = None THEN CacheAfterCall ELSE global_timestamp

\* ConfigurationManager() (39-47): _init_artifacts, then _load_configs
ConfigurationManager_init ==
    /\ Len(managers) < MaxCalls
    /\ timestamp_cache' = IF global_timestamp = None THEN CacheAfterCall
                          ELSE timestamp_cache
    /\ global_timestamp' = GlobalAfterInit
    /\ artRoots' = artRoots \cup {GlobalAfterInit}
    /\ IF LoadConfigs.ok
       THEN /\ managers' = Append(managers, [artifacts_root |-> GlobalAfterInit,
                                             at |-> clock,
                                             config |-> docs.config,
                                             params |-> docs.params])
            /\ cmResult' = [op |-> "ConfigurationManager", kind |-> "returned",
                            error |-> "none", cause |-> "none"]
       ELSE /\ UNCHANGED managers
            /\ cmResult' = [op |-> "ConfigurationManager", kind |-> "raised",
                            error |-> LoadConfigs.error, cause |-> LoadConfigs.cause]
    /\ UNCHANGED <<clock, docs, stamps>>
    /\ UNCHANGED cmRest

\* an accessor reads sections of the loaded documents; a section that is
\* not there raises the BoxKeyError of the box library
Sections(m, readsParams) ==
    IF m.config = "incomplete" \/ (readsParams /\ m.params = "incomplete")
    THEN Err("BoxKeyError", "BoxKeyError") ELSE Ok

\* an accessor without a try statement: get_data_ingestion_config (76-110),
\* get_s3_handler_config (112-130)
AccessorResult(op, m) ==
    IF Sections(m, FALSE).ok
    THEN [op |-> op, kind |-> "returned", error |-> "none", cause |-> "none"]
    ELSE [op |-> op, kind |-> "raised", error |-> Sections(m, FALSE).error,
          cause |-> Sections(m, FALSE).cause]

get_data_ingestion_config ==
    /\ \E i \in 1..Len(managers) :
          cmResult' = AccessorResult("get_data_ingestion_config", managers[i])
    /\ UNCHANGED <<clock, timestamp_cache, global_timestamp, docs, stamps, managers,
                   artRoots>>
    /\ UNCHANGED cmRest

get_s3_handler_config ==
    /\ \E i \in 1..Len(managers) :
          cmResult' = AccessorResult("get_s3_handler_config", managers[i])
    /\ UNCHANGED <<clock, timestamp_cache, global_timestamp, docs, stamps, managers,
                   artRoots>>
    /\ UNCHANGED cmRest

\* get_data_transformation_config (132-167): the body is inside a try whose
\* except clause wraps every error
get_data_transformation_config ==
    /\ \E i \in 1..Len(managers) :
          cmResult' = IF Sections(managers[i], TRUE).ok
                      THEN [op |-> "get_data_transformation_config", kind |-> "returned",
                            error |-> "none", cause |-> "none"]
                      ELSE [op |-> "get_data_transformation_config", kind |-> "raised",
                            error |-> "TextSummarizerError",
                            cause |-> Sections(managers[i], TRUE).cause]
    /\ UNCHANGED <<clock, timestamp_cache, global_timestamp, docs, stamps, managers,
                   artRoots>>
    /\ UNCHANGED cmRest

NextConfig ==
    \/ clock_tick
    \/ get_utc_timestamp
    \/ ConfigurationManager_init
    \/ get_data_ingestion_config
    \/ get_s3_handler_config
    \/ get_data_transformation_config

SpecConfig == InitConfig /\ [][NextConfig]_vars

\* a document that is absent, is not YAML, or has no content
BadDocs == {"missing", "unparseable", "empty"}

\* C12: when config.yaml or params.yaml is missing, unparseable or empty,
\* ConfigurationManager() raises a TextSummarizerError and no manager is
\* constructed.
C12_BadDocumentIsConfigurationError ==
    (cmResult.op = "ConfigurationManager"
        /\ (docs.config \in BadDocs \/ docs.params \in BadDocs)) =>
        /\ cmResult.kind = "raised"
        /\ cmResult.error = "TextSummarizerError"
        /\ managers = <<>>

\* C13: in one process every call of get_utc_timestamp returns the same
\* string whatever time passed between the calls, and every manager
\* constructed has the artifacts_root artifacts/<that string>.
C13_TimestampGeneratedOnce ==
    /\ \A i, j \in 1..Len(stamps) : stamps[i].value = stamps[j].value
    /\ \A i, j \in 1..Len(managers) :
          managers[i].artifacts_root = managers[j].artifacts_root
    /\ \A i \in 1..Len(stamps), j \in 1..Len(managers) :
          managers[j].artifacts_root = stamps[i].value
    /\ Cardinality(artRoots) <= 1

C13_Witness ==
    /\ Len(stamps) >= 2
    /\ Format(stamps[1].at) # Format(stamps[Len(stamps)].at)
    /\ Len(managers) >= 2
    /\ Format(managers[1].at) # Format(managers[Len(managers)].at)

\* C17: every failure of a public operation surfaces as a
\* TextSummarizerError; here, every constructor or accessor of the
\* configuration manager that raises, raises that kind.
C17_EveryFailureIsTextSummarizerError ==
    cmResult.kind = "raised" => cmResult.error = "TextSummarizerError"

(***************************************************************************)
(* Two pipeline runs, each a process with a timestamp cache of its own     *)
(* (timestamp.py 4, configuration.py 37), on one clock and one filesystem. *)
(* A run constructs its ConfigurationManager, then downloads the archive   *)
(* to artifacts/<timestamp>/data_ingestion/raw_data/<name> and extracts it.*)
(***************************************************************************)
Roots == {Format(t) : t \in 0..MaxClock}

InitRuns ==
    /\ rClock = 0
    /\ runPc = [r \in Runs |-> "not_started"]
    /\ runRoot = [r \in Runs |-> None]
    /\ rawFiles = [ts \in Roots |-> 0]
    /\ runRead = [r \in Runs |-> 0]
    /\ InitIdleMain /\ InitIdleScope /\ InitIdleSplit
    /\ InitIdleUri /\ InitIdleConfig /\ InitIdleEntity /\ InitIdlePipeline /\ InitIdleMore

runRest == <<mainVars, scopeVars, splitVars, uriVars, cmVars, entVars, plVars, moreVars>>

runs_clock_tick ==
    /\ rClock < MaxClock
    /\ rClock' = rClock + 1
    /\ UNCHANGED <<runPc, runRoot, rawFiles, runRead>>
    /\ UNCHANGED runRest

\* the process starts: its cache is empty, so _init_artifacts (49-61) takes
\* the time of now, formatted, as the name of its artifacts_root
run_start(r) ==
    /\ runPc[r] = "not_started"
    /\ runRoot' = [runRoot EXCEPT ![r] = Format(rClock)]
    /\ runPc' = [runPc EXCEPT ![r] = "started"]
    /\ UNCHANGED <<rClock, rawFiles, runRead>>
    /\ UNCHANGED runRest

\* download_file (core.py 283-308) to the raw_filepath of the run: nothing
\* is requested when the file exists; else the archive is written, or the
\* retries are exhausted and the run ends with the error
run_download_file(r) ==
    /\ runPc[r] = "started"
    /\ IF rawFiles[runRoot[r]] # 0
       THEN /\ runPc' = [runPc EXCEPT ![r] = "downloaded"]
            /\ UNCHANGED rawFiles
       ELSE \/ /\ rawFiles' = [rawFiles EXCEPT ![runRoot[r]] = r]
               /\ runPc' = [runPc EXCEPT ![r] = "downloaded"]
            \/ /\ runPc' = [runPc EXCEPT ![r] = "failed"]
               /\ UNCHANGED rawFiles
    /\ UNCHANGED <<rClock, runRoot, runRead>>
    /\ UNCHANGED runRest

\* _extract_zip_to_dataframe (data_ingestion.py 32-55) opens the raw_filepath
\* of the run
run_extract(r) ==
    /\ runPc[r] = "downloaded"
    /\ runRead' = [runRead EXCEPT ![r] = rawFiles[runRoot[r]]]
    /\ runPc' = [runPc EXCEPT ![r] = "extracted"]
    /\ UNCHANGED <<rClock, runRoot, rawFiles>>
    /\ UNCHANGED runRest

NextRuns ==
    \/ runs_clock_tick
    \/ \E r \in Runs : run_start(r)
    \/ \E r \in Runs : run_download_file(r)
    \/ \E r \in Runs : run_extract(r)

SpecRuns == InitRuns /\ [][NextRuns]_vars

\* C14: two runs never have the same run timestamp, hence never the same
\* artifacts/<timestamp> directory, and a run extracts no archive that
\* another run downloaded.
C14_RunsNeverCollide ==
    /\ \A r1, r2 \in Runs :
          (r1 # r2 /\ runRoot[r1] # None /\ runRoot[r2] # None)
              => runRoot[r1] # runRoot[r2]
    /\ \A r \in Runs : runRead[r] \in {0, r}

(***************************************************************************)
(* TrainingPipeline.run_pipeline (training_pipeline.py 23-78) with the     *)
(* stages it runs: DataIngestion.run_ingestion, modelled above, and        *)
(* DataTransformation.run_transformation (data_transformation.py 105-126). *)
(* Both stage configurations take local_enabled and s3_enabled from the    *)
(* one data_backup section (configuration.py 106-107, 160-161), so `conf`  *)
(* holds the flags of both.  The directory of the tokenized CSV files,     *)
(* artifacts/<timestamp>/data_transformation, is created by no line of the *)
(* program; it exists only if something else made it.                      *)
(***************************************************************************)
\* the split settings of params.yaml that are enumerated: 0.8/0.1/0.1, and
\* a train_size of 1.0, which train_test_split rejects
PipelineSplits ==
    {[train_size |-> 8, val_size |-> 1, test_size |-> 1, has_seed |-> TRUE,
      random_state |-> 0],
     [train_size |-> 10, val_size |-> 0, test_size |-> 0, has_seed |-> TRUE,
      random_state |-> 0]}

InitPipeline ==
    /\ mode = "ingest"
    /\ pc = "not_called"
    /\ urlArg = <<>>
    /\ url = <<>>
    /\ retries = 0
    /\ delay = 0
    /\ attempt = 0
    /\ trace = <<>>
    /\ served \in Archives
    /\ \E raw \in {NoFile, Partial}, dvc \in {NoFile, Zip(<<BCsv>>)} :
          /\ fs = InitFs(raw, dvc)
          /\ dirs = InitDirs(raw, dvc)
    /\ fs0 = fs
    /\ dlResult = "none"
    /\ conf \in [source_url : {<<"example.org", "d.zip">>},
                 local_enabled : BOOLEAN, s3_enabled : BOOLEAN]
    /\ handler = FALSE
    /\ InitIdleIngestion
    /\ tconf \in PipelineSplits
    /\ nrows \in {2, MaxRows}
    /\ npState = 0
    /\ spPc = "done"
    /\ exec = 0
    /\ train_valtest = EmptySplit
    /\ val_test = EmptySplit
    /\ out = EmptyOut
    /\ out1 = EmptyOut
    /\ spResult = "none"
    /\ spResult1 = "none"
    /\ plPc = "setup"
    /\ plResult = "none"
    /\ plCause = "none"
    /\ tStarted = 0
    /\ tHandler = FALSE
    /\ snap = <<>>
    /\ tdir \in BOOLEAN
    /\ tfs = {}
    /\ ts3 = {}
    /\ tartifact = EmptyTPaths
    /\ InitIdleScope
    /\ InitIdleExt

\* the variables of download_file and DataIngestion, but the files and the
\* bucket
mainButFiles == <<mode, pc, urlArg, url, retries, delay, attempt, trace, served, fs0,
                  dirs, dlResult, conf, handler, df, paths, artifact, ingResult, cause>>
plRest == <<scopeVars, splitVars, extVars>>

\* lines 77-78: every error that reaches run_pipeline's except clause is
\* wrapped and raised; nothing follows
PipelineRaise(c) ==
    /\ plResult' = "raised"
    /\ plCause' = c
    /\ plPc' = "done"

\* lines 31-39: the handler configuration and the handler are made, then the
\* ingestion configuration and DataIngestion(..., backup_handler=s3_handler)
pipeline_setup ==
    /\ plPc = "setup"
    /\ \/ /\ PipelineRaise("setup")
          /\ UNCHANGED <<pc, handler>>
       \/ /\ handler' = TRUE
          /\ pc' = "run_ingestion"
          /\ plPc' = "ingestion"
          /\ UNCHANGED <<plResult, plCause>>
    /\ UNCHANGED <<mode, urlArg, url, retries, delay, attempt, trace, served, fs, fs0, dirs,
                   dlResult, conf, df, paths, s3, artifact, ingResult, cause>>
    /\ UNCHANGED <<tStarted, tHandler, snap, tdir, tfs, ts3, tartifact>>
    /\ UNCHANGED plRest

\* line 40: the value run_ingestion handed back (it returns an artifact, or
\* raises)
ReturnedArtifact == IF ingResult = "returned" THEN <<artifact>> ELSE None

\* line 44, `if data_ingestion_artifact:` -- None is false, an instance of
\* the dataclass (no __bool__, no __len__) is true whatever its fields hold
Truthy(v) == v # None

\* the transformation stage started whatever run_ingestion did
StartsTransformation_unconditional == TRUE

\* lines 40-44: control reaches the transformation stage when run_ingestion
\* returned and the value is true
StartsTransformation == ingResult = "returned" /\ Truthy(ReturnedArtifact)

\* lines 40-54: run_ingestion is over.  An error raised goes to the except
\* clause; an artifact leads to DataTransformation(transformation_config,
\* ingestion_artifact) -- no backup_handler is passed -- whose constructor
\* loads the tokenizer (data_transformation.py 25); otherwise run_pipeline
\* returns.
pipeline_after_ingestion ==
    /\ plPc = "ingestion"
    /\ pc = "done"
    /\ IF StartsTransformation
       THEN \/ /\ PipelineRaise("transformation_init")
               /\ UNCHANGED <<tStarted, tHandler, snap>>
            \/ /\ tStarted' = tStarted + 1
               /\ tHandler' = FALSE
               /\ snap' = [fs |-> fs, s3 |-> s3]
               /\ plPc' = "load"
               /\ UNCHANGED <<plResult, plCause>>
       ELSE IF ingResult = "raised"
       THEN /\ PipelineRaise("ingestion")
            /\ UNCHANGED <<tStarted, tHandler, snap>>
       ELSE /\ plResult' = "returned"
            /\ plPc' = "done"
            /\ UNCHANGED <<plCause, tStarted, tHandler, snap>>
    /\ UNCHANGED <<tdir, tfs, ts3, tartifact>>
    /\ UNCHANGED <<mainVars, plRest>>

\* a failed transformation that removes what ingestion persisted
TransformRaise_rollback(c) ==
    /\ PipelineRaise(c)
    /\ fs' = [p \in FilePaths |-> NoFile]
    /\ s3' = [p \in FilePaths |-> NoFile]

\* data_transformation.py 125-126 and training_pipeline.py 77-78: the error
\* is wrapped and raised twice; no handler of either touches a file
TransformRaise(c) ==
    /\ PipelineRaise(c)
    /\ UNCHANGED <<fs, s3>>

\* line 108: load_dataset("csv", data_files=str(ingested_filepath)); the
\* path of a null field is the string "None", which names no file
transformation_load ==
    /\ plPc = "load"
    /\ IF artifact["ingested_filepath"] = None \/ ~Exists(fs["ingested_filepath"])
       THEN TransformRaise("load_dataset")
       ELSE /\ plPc' = "split"
            /\ UNCHANGED <<plResult, plCause, fs, s3>>
    /\ UNCHANGED <<tStarted, tHandler, snap, tdir, tfs, ts3, tartifact>>
    /\ UNCHANGED <<mainButFiles, plRest>>

\* line 109: _split_and_tokenize (50-68) on the records of the CSV
transformation_split ==
    /\ plPc = "split"
    /\ IF FirstSplit(Dataset).ok /\ SecondSplit(FirstSplit(Dataset).test).ok
       THEN \/ /\ plPc' = "save"
               /\ UNCHANGED <<plResult, plCause, fs, s3>>
            \/ TransformRaise("tokenize")
       ELSE TransformRaise("split")
    /\ UNCHANGED <<tStarted, tHandler, snap, tdir, tfs, ts3, tartifact>>
    /\ UNCHANGED <<mainButFiles, plRest>>

\* line 111: _save_locally (70-87); to_csv opens its path for writing and
\* makes no directory
transformation_save_locally ==
    /\ plPc = "save"
    /\ IF ~conf.local_enabled
       THEN /\ plPc' = "stream"
            /\ UNCHANGED <<plResult, plCause, fs, s3, tfs, tartifact>>
       ELSE IF ~tdir
       THEN /\ TransformRaise("save_locally")
            /\ UNCHANGED <<tfs, tartifact>>
       ELSE /\ tfs' = Partitions
            /\ tartifact' = [tartifact EXCEPT !["train_filepath"] = LocalPath("train_filepath"),
                                              !["val_filepath"] = LocalPath("val_filepath"),
                                              !["test_filepath"] = LocalPath("test_filepath")]
            /\ plPc' = "stream"
            /\ UNCHANGED <<plResult, plCause, fs, s3>>
    /\ UNCHANGED <<tStarted, tHandler, snap, tdir, ts3>>
    /\ UNCHANGED <<mainButFiles, plRest>>

\* line 112: _stream_to_s3 (89-103)
transformation_stream_to_s3 ==
    /\ plPc = "stream"
    /\ IF ~conf.s3_enabled \/ ~tHandler
       THEN /\ plPc' = "return"
            /\ UNCHANGED <<plResult, plCause, fs, s3, ts3, tartifact>>
       ELSE \/ /\ TransformRaise("client_error")
               /\ UNCHANGED <<ts3, tartifact>>
            \/ /\ ts3' = Partitions
               /\ tartifact' = [tartifact EXCEPT !["train_s3_uri"] = S3Uri("train_filepath"),
                                                 !["val_s3_uri"] = S3Uri("val_filepath"),
                                                 !["test_s3_uri"] = S3Uri("test_filepath")]
               /\ plPc' = "return"
               /\ UNCHANGED <<plResult, plCause, fs, s3>>
    /\ UNCHANGED <<tStarted, tHandler, snap, tdir, tfs>>
    /\ UNCHANGED <<mainButFiles, plRest>>

\* lines 116-123 and training_pipeline.py 50-51, 75: the artifact is
\* returned and logged, and run_pipeline returns
transformation_return ==
    /\ plPc = "return"
    /\ plResult' = "returned"
    /\ plPc' = "done"
    /\ UNCHANGED <<plCause, tStarted, tHandler, snap, tdir, tfs, ts3, tartifact>>
    /\ UNCHANGED <<mainVars, plRest>>

NextPipeline ==
    \/ pipeline_setup
    \/ download_file_enter
    \/ download_file_attempt_ok
    \/ download_file_attempt_fail_request
    \/ download_file_attempt_fail_write
    \/ run_ingestion_enter
    \/ extract_zip_to_dataframe
    \/ persist_data_local
    \/ persist_data_upload_raw
    \/ persist_data_upload_dvc
    \/ persist_data_stream_csv
    \/ run_ingestion_return
    \/ pipeline_after_ingestion
    \/ transformation_load
    \/ transformation_split
    \/ transformation_save_locally
    \/ transformation_stream_to_s3
    \/ transformation_return

SpecPipeline == InitPipeline /\ [][NextPipeline]_vars

TransformationStages == {"load", "split", "save", "stream", "return"}

\* C15: the transformation stage is constructed and run only after
\* run_ingestion has returned an artifact, never after it raised (then
\* run_pipeline raises), and a run whose ingestion yields no artifact ends by
\* returning, without a transformation.
C15_IngestionBeforeTransformation ==
    /\ (tStarted > 0 \/ plPc \in TransformationStages)
          => (pc = "done" /\ ingResult = "returned")
    /\ ingResult = "raised" => (tStarted = 0 /\ (plPc = "done" => plResult = "raised"))
    /\ (plPc = "done" /\ pc = "done" /\ ingResult # "raised"
            /\ ~Truthy(ReturnedArtifact))
          => (plResult = "returned" /\ tStarted = 0)

C15_Witness ==
    /\ plPc = "done"
    /\ plResult = "returned"
    /\ tStarted = 1
    /\ ingResult = "returned"
    /\ tfs = Partitions

\* C16: in a pipeline run that completes, s3_enabled gives an artifact whose
\* three remote URIs are non-null, with the three partitions in the bucket,
\* and local_enabled gives three non-null local filepaths.
C16_PartitionsStreamedWhenRemoteEnabled ==
    (plPc = "done" /\ plResult = "returned" /\ tStarted > 0) =>
        /\ conf.s3_enabled => (/\ \A f \in TRemoteFields : tartifact[f] # None
                               /\ ts3 = Partitions)
        /\ conf.local_enabled => \A f \in TLocalFields : tartifact[f] # None

\* C18: when run_pipeline raises because the transformation stage failed,
\* every file and object is as run_ingestion left it, what the ingestion
\* artifact names still exists, and the transformation was run once.
C18_NoRollbackAfterTransformationFailure ==
    (plPc = "done" /\ plResult = "raised" /\ tStarted > 0) =>
        /\ fs = snap.fs
        /\ s3 = snap.s3
        /\ \A f \in LocalFields : artifact[f] # None => Exists(fs[f])
        /\ artifact["ingested_s3_uri"] # None => Exists(s3["ingested_filepath"])
        /\ tStarted = 1

C18_Witness ==
    /\ plPc = "done" /\ plResult = "raised" /\ tStarted = 1
    /\ plCause = "split"
    /\ conf.local_enabled /\ conf.s3_enabled
    /\ fs["ingested_filepath"].kind = "csv"
    /\ fs["dvc_raw_filepath"].kind = "zip"
    /\ s3["ingested_filepath"].kind = "csv"
    /\ s3["raw_filepath"].kind = "zip"

(***************************************************************************)
(* The entity classes (config_entity.py, artifact_entity.py).  The three   *)
(* configuration classes are declared @dataclass, the two artifact classes *)
(* @dataclass(frozen=True).  An object is the record of two of its fields. *)
(***************************************************************************)
EntityClasses == {"DataIngestionConfig", "S3HandlerConfig", "DataTransformationConfig",
                  "DataIngestionArtifact", "DataTransformationArtifact"}

\* the decorator of the class: frozen=True or not
Frozen(cls) == cls \in {"DataIngestionArtifact", "DataTransformationArtifact"}

EntityFields(cls) ==
    CASE cls = "DataIngestionConfig" -> {"source_url", "local_enabled"}
      [] cls = "S3HandlerConfig" -> {"bucket_name", "aws_region"}
      [] cls = "DataTransformationConfig" -> {"train_size", "s3_enabled"}
      [] cls = "DataIngestionArtifact" -> {"ingested_filepath", "ingested_s3_uri"}
      [] cls = "DataTransformationArtifact" -> {"train_filepath", "train_s3_uri"}

FieldValues == {"a", "b", "c"}

InitEntity ==
    /\ objClass \in EntityClasses
    /\ objFields \in [EntityFields(objClass) -> FieldValues]
    /\ objBuilt = objFields
    /\ setResult = "none"
    /\ InitIdleMain /\ InitIdleScope /\ InitIdleSplit
    /\ InitIdleUri /\ InitIdleConfig /\ InitIdleRuns /\ InitIdlePipeline /\ InitIdleMore

\* obj.<field> = value: the __setattr__ a frozen dataclass generates raises
\* FrozenInstanceError; a plain dataclass stores the value
entity_setattr ==
    /\ \E f \in EntityFields(objClass), v \in FieldValues :
          IF Frozen(objClass)
          THEN /\ setResult' = "FrozenInstanceError"
               /\ UNCHANGED objFields
          ELSE /\ setResult' = "assigned"
               /\ objFields' = [objFields EXCEPT ![f] = v]
    /\ UNCHANGED <<objClass, objBuilt>>
    /\ UNCHANGED <<mainVars, scopeVars, splitVars, uriVars, cmVars, runVars, plVars, moreVars>>

NextEntity == entity_setattr

SpecEntity == InitEntity /\ [][NextEntity]_vars

\* C19: no field of a configuration object or of an artifact can be
\* reassigned: the object always holds the values it was constructed with.
C19_EntitiesImmutable ==
    /\ objFields = objBuilt
    /\ setResult \in {"none", "FrozenInstanceError"}

\* C20: no split is made with ratios whose sum differs from 1.0: once
\* _split_and_tokenize has made its first split, train_size + val_size +
\* test_size is 1.0 (ten tenths).
C20_RatiosSumToOne ==
    (spPc \in {"val_test", "map"} \/ spResult = "returned") =>
        tconf.train_size + tconf.val_size + tconf.test_size = 10

(***************************************************************************)
(* Further properties of run_ingestion and download_file, under Spec.      *)
(***************************************************************************)
\* the step of run_ingestion a position belongs to: 1 download (line 114),
\* 2 extract (115), 3 persist (116-120), 4 over
Phase(p) ==
    CASE p = "run_ingestion" -> 0
      [] p \in {"call", "loop"} -> 1
      [] p = "extract" -> 2
      [] p \in {"persist", "upload_raw", "upload_dvc", "stream_csv", "return"} -> 3
      [] OTHER -> 4

\* C21: run_ingestion goes through download, extract, persist in that order:
\* no step is entered twice or skipped, extract starts only when the
\* download returned, persist only when extract gave a table, a step that
\* fails ends the call with nothing returned, and the artifact is returned
\* only from the end of persist.
C21_LinearProgression ==
    [][mode = "ingest" =>
        /\ Phase(pc') >= Phase(pc)
        /\ (Phase(pc') > Phase(pc) /\ pc' # "done") => Phase(pc') = Phase(pc) + 1
        /\ (Phase(pc) < 2 /\ Phase(pc') = 2) => (dlResult' = "returned" /\ ingResult' = "none")
        /\ (Phase(pc) < 3 /\ Phase(pc') = 3) => (df' # NoFile /\ ingResult' = "none")
        /\ ingResult' = "raised" => (pc' = "done" /\ artifact' = EmptyPaths)
        /\ (ingResult = "none" /\ ingResult' = "returned") => (pc = "return" /\ pc' = "done")
      ]_vars

C21_Witness ==
    /\ mode = "ingest"
    /\ pc = "done"
    /\ ingResult = "returned"
    /\ Len(trace) > 1
    /\ conf.local_enabled /\ conf.s3_enabled /\ handler
    /\ fs["ingested_filepath"].kind = "csv"

\* the archive at the destination has no member whose name ends with ".csv"
NoCsvEntry(zip) == \A i \in 1..Len(zip.entries) : zip.entries[i][2] # ".csv"

\* C22: the table extracted is the first member, in archive order, whose
\* name ends with ".csv"; on an archive without such a member run_ingestion
\* raises the no-CSV error, and no DVC copy, no ingested CSV and no remote
\* object is written.
C22_FirstCsvEntryExtracted ==
    mode = "ingest" =>
        /\ df # NoFile =>
              \E i \in 1..Len(fs["raw_filepath"].entries) :
                  /\ fs["raw_filepath"].entries[i][2] = ".csv"
                  /\ \A j \in 1..(i - 1) : fs["raw_filepath"].entries[j][2] # ".csv"
                  /\ df = Table(fs["raw_filepath"].entries[i])
        /\ (pc = "done" /\ dlResult = "returned" /\ fs["raw_filepath"].kind = "zip"
                /\ NoCsvEntry(fs["raw_filepath"]))
              => /\ ingResult = "raised" /\ cause = "no_csv"
                 /\ df = NoFile
                 /\ fs["dvc_raw_filepath"] = fs0["dvc_raw_filepath"]
                 /\ fs["ingested_filepath"] = NoFile
                 /\ \A k \in DOMAIN s3 : s3[k] = NoFile
                 /\ artifact = EmptyPaths

C22_Witness ==
    /\ mode = "ingest"
    /\ fs["raw_filepath"] = Zip(<<Readme, ACsv>>)
    /\ df = Table(ACsv)
    /\ ingResult = "returned"
    /\ fs["ingested_filepath"] = Csv(Table(ACsv))

\* C26: whenever download_file returns normally, the destination holds the
\* complete payload of a successful response, also when an earlier call left
\* a partly written file there and when retries <= 0.
C26_ReturnedMeansComplete ==
    dlResult = "returned" => fs["raw_filepath"].kind = "zip"

(***************************************************************************)
(* Further properties of the pipeline, under SpecPipeline.                 *)
(***************************************************************************)
\* C27: whenever run_pipeline starts the transformation stage, the artifact
\* it passes has a non-null ingested_filepath and the ingested CSV exists.
C27_TransformationGivenIngestedFile ==
    tStarted > 0 =>
        /\ artifact["ingested_filepath"] # None
        /\ fs["ingested_filepath"].kind = "csv"

\* C28: in a run that starts with no file, every file written has its
\* parent directory, and when _save_locally is about to write the three
\* CSV files their directory exists.
C28_DirectoryBeforeWrite ==
    (\A p \in FilePaths : fs0[p] = NoFile) =>
        /\ \A p \in FilePaths : Exists(fs[p]) => ParentDir(p) \in dirs
        /\ (plPc = "save" /\ conf.local_enabled) => tdir

(***************************************************************************)
(* A stage that uses the handler in a with block: _persist_data            *)
(* (data_ingestion.py 85-102) and _stream_to_s3 (data_transformation.py    *)
(* 89-103).  The with statement is inside the try of the stage, so what    *)
(* leaves the with statement reaches `except Exception`, is wrapped in a   *)
(* TextSummarizerError and raised; the return statement is not reached.    *)
(***************************************************************************)
StageOutcome(esc) == IF esc = "none" THEN "returned" ELSE "raised"

\* the class of what left the with statement: __exit__ raises
\* TextSummarizerError(e, logger) when close() failed (base_handler.py 30),
\* the error of the body keeps its own class
EscapedClass(esc) ==
    CASE esc = "close_error" -> "TextSummarizerError"
      [] esc = "body_error" -> "class of the body's error"
      [] OTHER -> "none"

\* C30: an error raised inside a with block of a handler, DBHandler or
\* S3Handler, always leaves the with statement, so the stage around it raises
\* and returns no artifact; when close() fails in DBHandler.__exit__, what
\* leaves the with statement is a TextSummarizerError.
C30_ScopeExitNeverSwallows ==
    (scPc = "outside" /\ exits > 0) =>
        /\ bodyErr # "none" => (escaped # "none" /\ StageOutcome(escaped) = "raised")
        /\ closeErr => EscapedClass(escaped) = "TextSummarizerError"

C30_Witness ==
    /\ scPc = "outside"
    /\ hKind = "S3Handler"
    /\ bodyErr = "body_error"
    /\ escaped = "body_error"
    /\ ops > 0

(***************************************************************************)
(* get_utc_timestamp (timestamp.py 20-25) called by several threads of one *)
(* process.  A thread may be suspended between any two of: the test of the *)
(* cache (22), the call of now().strftime (23, right-hand side), the store *)
(* into _timestamp_cache (23, assignment), the read of the global that is  *)
(* returned (25).  The clock ticks at any moment.                          *)
(***************************************************************************)
InitThreads ==
    /\ thPc = [t \in Threads |-> "call"]
    /\ thLocal = [t \in Threads |-> None]
    /\ thRet = [t \in Threads |-> None]
    /\ cacheWrites = <<>>
    /\ InitIdleConfig
    /\ InitIdleMain /\ InitIdleScope /\ InitIdleSplit
    /\ InitIdleUri /\ InitIdleRuns /\ InitIdleEntity /\ InitIdlePipeline
    /\ InitIdleTokenize /\ InitIdleSync /\ InitIdleStream

\* what the steps of a thread leave alone
thRest == <<mainVars, scopeVars, splitVars, uriVars, runVars, entVars, plVars,
            tokVars, syncVars, streamVars>>
cmButCache == <<clock, global_timestamp, docs, stamps, managers, artRoots, cmResult>>

\* line 22: if _timestamp_cache is None
th_test(t) ==
    /\ thPc[t] = "call"
    /\ thPc' = [thPc EXCEPT ![t] = IF timestamp_cache = None THEN "now" ELSE "return"]
    /\ UNCHANGED <<thLocal, thRet, cacheWrites, timestamp_cache, cmButCache, thRest>>

\* line 23, right-hand side: datetime.now(timezone.utc).strftime(format)
th_now(t) ==
    /\ thPc[t] = "now"
    /\ thLocal' = [thLocal EXCEPT ![t] = Format(clock)]
    /\ thPc' = [thPc EXCEPT ![t] = "store"]
    /\ UNCHANGED <<thRet, cacheWrites, timestamp_cache, cmButCache, thRest>>

\* line 23, the assignment to the global
th_store(t) ==
    /\ thPc[t] = "store"
    /\ timestamp_cache' = thLocal[t]
    /\ cacheWrites' = Append(cacheWrites, thLocal[t])
    /\ thPc' = [thPc EXCEPT ![t] = "return"]
    /\ UNCHANGED <<thLocal, thRet, cmButCache, thRest>>

\* line 25: return _timestamp_cache
th_return(t) ==
    /\ thPc[t] = "return"
    /\ thRet' = [thRet EXCEPT ![t] = timestamp_cache]
    /\ thPc' = [thPc EXCEPT ![t] = "done"]
    /\ UNCHANGED <<thLocal, cacheWrites, timestamp_cache, cmButCache, thRest>>

NextThreads ==
    \/ clock_tick
    \/ \E t \in Threads : th_test(t)
    \/ \E t \in Threads : th_now(t)
    \/ \E t \in Threads : th_store(t)
    \/ \E t \in Threads : th_return(t)

SpecThreads == InitThreads /\ [][NextThreads]_vars

\* C23: when threads call get_utc_timestamp while the cache is empty, under
\* every interleaving the cache is written with a single value and all the
\* calls, racing and later, return that same value.
C23_RaceIsBenign ==
    /\ \A i, j \in 1..Len(cacheWrites) : cacheWrites[i] = cacheWrites[j]
    /\ \A t, u \in Threads :
          (thPc[t] = "done" /\ thPc[u] = "done") => thRet[t] = thRet[u]

(***************************************************************************)
(* The stream operations of S3Handler: stream_csv (147-172), stream_yaml   *)
(* (174-214), stream_object (233-261), stream_npy (263-291).  Each puts    *)
(* the object under (bucket_name, s3_key) and returns the URI built from   *)
(* the two; the URI is then given to _parse_s3_uri or to a load operation. *)
(***************************************************************************)
\* a bucket name holds no "/"
BucketChars == UriChars \ {"/"}

\* f"s3://{self.config.bucket_name}/{s3_key}"
StreamUri(bucket, key) == S3Prefix \o bucket \o <<"/">> \o key

InitStream ==
    /\ bucket_name \in SeqsUpTo(BucketChars, MaxKey)
    /\ s3_key \in SeqsUpTo(UriChars, MaxKey)
    /\ putCalls = <<>>
    /\ s3_uri = <<>>
    /\ uriPc = "stream"
    /\ uriOp = "none"
    /\ uriResult = NoUriResult
    /\ getCalls = <<>>
    /\ InitIdleMain /\ InitIdleScope /\ InitIdleSplit
    /\ InitIdleConfig /\ InitIdleRuns /\ InitIdleEntity /\ InitIdlePipeline
    /\ InitIdleThreads /\ InitIdleTokenize /\ InitIdleSync

\* a stream operation: serialize, put_object, return the URI; an error of the
\* request is wrapped in a TextSummarizerError and no URI is returned
Stream(op) ==
    /\ uriPc = "stream"
    /\ uriOp' = op
    /\ \/ /\ putCalls' = Append(putCalls, [op |-> op, Bucket |-> bucket_name,
                                           Key |-> s3_key])
          /\ s3_uri' = StreamUri(bucket_name, s3_key)
          /\ uriPc' = "call"
          /\ UNCHANGED uriResult
       \/ /\ uriResult' = UriRaised("TextSummarizerError", "ClientError")
          /\ uriPc' = "done"
          /\ UNCHANGED <<putCalls, s3_uri>>
    /\ UNCHANGED <<getCalls, bucket_name, s3_key>>
    /\ UNCHANGED <<mainVars, scopeVars, splitVars, cmVars, runVars, entVars, plVars,
                   thVars, tokVars, syncVars>>

stream_csv == Stream("stream_csv")
stream_yaml == Stream("stream_yaml")
stream_object == Stream("stream_object")
stream_npy == Stream("stream_npy")

NextStream ==
    \/ stream_csv
    \/ stream_yaml
    \/ stream_object
    \/ stream_npy
    \/ parse_s3_uri
    \/ load_csv
    \/ load_npy
    \/ load_object

SpecStream == InitStream /\ [][NextStream]_vars

\* C29: for every bucket name without "/" and every key, the URI a stream
\* operation returns is parsed by _parse_s3_uri into exactly (bucket, key):
\* no load from it fails on the form of the URI, and the get_object request
\* of a load names the bucket and the key of the put_object request.
C29_StreamUriRoundTrips ==
    putCalls # <<>> =>
        /\ ParseS3Uri(s3_uri) = [ok |-> TRUE, bucket |-> bucket_name, key |-> s3_key]
        /\ uriPc = "done" =>
              /\ uriResult.cause # "ValueError"
              /\ uriResult.kind = "returned" =>
                    (uriResult.bucket = bucket_name /\ uriResult.key = s3_key)
              /\ uriOp # "_parse_s3_uri" =>
                    getCalls = <<[Bucket |-> putCalls[1].Bucket, Key |-> putCalls[1].Key]>>

C29_Witness ==
    /\ uriPc = "done"
    /\ uriOp = "load_csv"
    /\ putCalls # <<>> /\ putCalls[1].op = "stream_csv"
    /\ bucket_name # <<>>
    /\ \E i \in 2..Len(s3_key) : s3_key[i] = "/"
    /\ uriResult.kind = "returned"

(***************************************************************************)
(* Tokenization: _convert_examples_to_features (data_transformation.py     *)
(* 27-48) mapped with batched=True over the three partitions (62-66).  A   *)
(* text is the sequence of its word pieces, or Missing for an empty cell   *)
(* of the table, which the tokenizer refuses.  The tokenizer is one of a   *)
(* sequence-to-sequence model: it ends every encoding with one end token   *)
(* and has a padding token.                                                *)
(***************************************************************************)
Pad == 0
Eos == 1
Word == 2
\* the value None of an empty cell, which is no sequence of word pieces
Missing == <<-1>>
Texts == SeqsUpTo({Word}, MaxText)
Records == [dialogue : Texts, summary : Texts]
    \cup {[dialogue |-> Missing, summary |-> <<>>], [dialogue |-> <<>>, summary |-> Missing]}

\* the encoding of a text before truncation: its word pieces, then the end token
Encode(text) == text \o <<Eos>>

\* truncation=True with max_length=n: word pieces are dropped from the right
\* until the encoding, end token included, has n tokens
Truncate(ids, n) == IF Len(ids) > n THEN SubSeq(ids, 1, n - 1) \o <<Eos>> ELSE ids

\* a tokenizer called without padding
PadTo_none(ids, n) == ids

\* padding="max_length" with max_length=n: padding tokens are appended up to n
PadTo(ids, n) == ids \o [i \in 1..(n - Len(ids)) |-> Pad]

\* self.tokenizer(texts, max_length=n, truncation=True, padding="max_length")
\* on one text: the ids, and the mask that is 1 on the tokens that are not padding
Tokenizer(text, n) ==
    LET ids == Truncate(Encode(text), n)
        padded == PadTo(ids, n)
    IN  [input_ids |-> padded,
         attention_mask |-> [i \in 1..Len(padded) |-> IF i <= Len(ids) THEN 1 ELSE 0]]

\* _convert_examples_to_features on one example of the batch (29-46)
ConvertExample(r) ==
    [dialogue |-> r.dialogue,
     summary |-> r.summary,
     input_ids |-> Tokenizer(r.dialogue, max_input_length).input_ids,
     attention_mask |-> Tokenizer(r.dialogue, max_input_length).attention_mask,
     labels |-> Tokenizer(r.summary, max_target_length).input_ids]

\* the tokenizer raises on a batch that holds a value that is no string
Tokenizable(rows) ==
    \A k \in 1..Len(rows) : rows[k].dialogue # Missing /\ rows[k].summary # Missing

\* Dataset.map(fn, batched=True): the columns fn returns are added to the rows
MapBatched(rows) == [k \in 1..Len(rows) |-> ConvertExample(rows[k])]

\* the three partitions of a dataset cut after its a-th and its b-th record
Cut(ds, a, b) == [train |-> SubSeq(ds, 1, a), val |-> SubSeq(ds, a + 1, b),
                  test |-> SubSeq(ds, b + 1, Len(ds))]

InitTokenize ==
    /\ \E ds \in SeqsUpTo(Records, MaxBatch) :
          \E a \in 0..Len(ds) : \E b \in a..Len(ds) : splits = Cut(ds, a, b)
    /\ max_input_length \in 1..MaxLen
    /\ max_target_length \in 1..MaxLen
    /\ tokPc = "train"
    /\ tokenized = [p \in Partitions |-> <<>>]
    /\ InitIdleMain /\ InitIdleScope /\ InitIdleSplit
    /\ InitIdleUri /\ InitIdleConfig /\ InitIdleRuns /\ InitIdleEntity
    /\ InitIdlePipeline
    /\ InitIdleThreads /\ InitIdleSync /\ InitIdleStream

tokRest == <<mainVars, scopeVars, splitVars, uriVars, cmVars, runVars, entVars, plVars,
             thVars, syncVars, streamVars>>

\* one entry of the dictionary of lines 62-66; an error is wrapped (46-48)
\* and leaves _split_and_tokenize (67-68)
MapPartition(p, next) ==
    /\ tokPc = p
    /\ IF Tokenizable(splits[p])
       THEN /\ tokenized' = [tokenized EXCEPT ![p] = MapBatched(splits[p])]
            /\ tokPc' = next
       ELSE /\ tokPc' = "raised"
            /\ UNCHANGED tokenized
    /\ UNCHANGED <<splits, max_input_length, max_target_length, tokRest>>

tokenize_train == MapPartition("train", "val")
tokenize_val == MapPartition("val", "test")
tokenize_test == MapPartition("test", "return")

\* the dictionary is returned
tokenize_return ==
    /\ tokPc = "return"
    /\ tokPc' = "done"
    /\ UNCHANGED <<splits, max_input_length, max_target_length, tokenized, tokRest>>

NextTokenize ==
    \/ tokenize_train
    \/ tokenize_val
    \/ tokenize_test
    \/ tokenize_return

SpecTokenize == InitTokenize /\ [][NextTokenize]_vars

\* C24: each partition has as many records after tokenization as before, and
\* in every tokenized record input_ids and attention_mask have length
\* max_input_length and labels has length max_target_length, whatever the
\* lengths of the dialogue and of the summary.
C24_FixedLengthFeatures ==
    /\ tokPc = "done" => \A p \in Partitions : Len(tokenized[p]) = Len(splits[p])
    /\ \A p \in Partitions : \A k \in 1..Len(tokenized[p]) :
          /\ Len(tokenized[p][k].input_ids) = max_input_length
          /\ Len(tokenized[p][k].attention_mask) = max_input_length
          /\ Len(tokenized[p][k].labels) = max_target_length

C24_Witness ==
    /\ tokPc = "done"
    /\ Len(tokenized["train"]) = 1 /\ Len(tokenized["test"]) = 1
    /\ Len(splits["train"][1].dialogue) >= max_input_length
    /\ Len(splits["train"][1].summary) + 1 < max_target_length
    /\ splits["test"][1].dialogue = <<>>

(***************************************************************************)
(* S3Handler.sync_directory (s3_handler.py 93-127) and upload_file (63-91).*)
(* The tree under local_dir is the set of its regular files, each the      *)
(* sequence of names that leads to it from local_dir; the directories are  *)
(* the proper prefixes of the files.  os.walk is called with its defaults: *)
(* top-down, and with onerror=None, so a directory that cannot be listed   *)
(* is passed over without an error.                                        *)
(***************************************************************************)
Names == {"x", "y"}
RelPaths == SeqsUpTo(Names, MaxDepth) \ {<<>>}
IsProperPrefix(p, q) == Len(p) < Len(q) /\ SubSeq(q, 1, Len(p)) = p
\* no name is both a file and a directory
Trees == {t \in SUBSET RelPaths : \A p, q \in t : ~IsProperPrefix(p, q)}
\* the directories of a tree, local_dir itself (the empty path) included
DirsOf(t) == {<<>>} \cup {d \in RelPaths : \E p \in t : IsProperPrefix(d, p)}
Listings == {<<"x", "y">>, <<"y", "x">>}
Prefixes == {<<"p">>, <<"p", "/", "q">>}

\* Path.as_posix() of a relative path: its names joined by "/"
RECURSIVE AsPosix(_)
AsPosix(rel) == IF Len(rel) = 1 THEN <<rel[1]>>
                ELSE <<rel[1], "/">> \o AsPosix(Tail(rel))

\* line 116: f"{s3_prefix}/{relative_path.as_posix()}"
RemoteKey(prefix, rel) == prefix \o <<"/">> \o AsPosix(rel)

RECURSIVE Flatten(_)
Flatten(ss) == IF ss = <<>> THEN <<>> ELSE Head(ss) \o Flatten(Tail(ss))

\* the entries of directory d that are regular files, and those that are
\* directories, in the order the directory lists them
FilesIn(d) == LET ns == SelectSeq(listing, LAMBDA n : (d \o <<n>>) \in tree)
              IN  [k \in 1..Len(ns) |-> d \o <<ns[k]>>]
SubDirs(d) == LET ns == SelectSeq(listing, LAMBDA n : (d \o <<n>>) \in DirsOf(tree))
              IN  [k \in 1..Len(ns) |-> d \o <<ns[k]>>]

\* lines 112-114: the files os.walk yields from directory d on, top-down
RECURSIVE Walk(_)
Walk(d) == IF d \in unreadable THEN <<>>
           ELSE FilesIn(d) \o Flatten([k \in 1..Len(SubDirs(d)) |-> Walk(SubDirs(d)[k])])

InitSync ==
    /\ local_dir \in {"dir", "file", "absent"}
    /\ tree \in (IF local_dir = "dir" THEN Trees ELSE {{}})
    /\ unreadable \in (IF local_dir = "dir"
                       THEN {{}} \cup {{d} : d \in DirsOf(tree)} ELSE {{}})
    /\ listing \in Listings
    /\ s3_prefix \in Prefixes
    /\ syncPc = "call"
    /\ todo = <<>>
    /\ uploads = <<>>
    /\ syncResult = NoSyncResult
    /\ InitIdleMain /\ InitIdleScope /\ InitIdleSplit
    /\ InitIdleUri /\ InitIdleConfig /\ InitIdleRuns /\ InitIdleEntity
    /\ InitIdlePipeline
    /\ InitIdleThreads /\ InitIdleTokenize /\ InitIdleStream

syncRest == <<mainVars, scopeVars, splitVars, uriVars, cmVars, runVars, entVars, plVars,
              thVars, tokVars, streamVars>>
syncArgs == <<local_dir, tree, unreadable, listing, s3_prefix>>

SyncRaised(op, chain) == [op |-> op, kind |-> "raised", chain |-> chain]
SyncReturned(op) == [op |-> op, kind |-> "returned", chain |-> <<>>]

\* upload_file called on its own on a relative path of local_dir: line 72-73
\* on what is no regular file, else the request, which returns or fails
upload_file_alone ==
    /\ syncPc = "call"
    /\ syncPc' = "done"
    /\ \E rel \in RelPaths :
          IF local_dir = "dir" /\ rel \in tree
          THEN \/ /\ uploads' = Append(uploads, [file |-> rel, key |-> AsPosix(rel)])
                  /\ syncResult' = SyncReturned("upload_file")
               \/ /\ syncResult' = SyncRaised("upload_file",
                                       <<"TextSummarizerError", "ClientError">>)
                  /\ UNCHANGED uploads
          ELSE /\ syncResult' = SyncRaised("upload_file",
                                    <<"TextSummarizerError", "FileNotFoundError">>)
               /\ UNCHANGED uploads
    /\ UNCHANGED <<todo, syncArgs, syncRest>>

\* lines 101-112: the test of local_dir, then the walk starts
sync_directory_enter ==
    /\ syncPc = "call"
    /\ IF local_dir # "dir"
       THEN /\ syncResult' = SyncRaised("sync_directory",
                                 <<"TextSummarizerError", "NotADirectoryError">>)
            /\ syncPc' = "done"
            /\ UNCHANGED todo
       ELSE /\ todo' = Walk(<<>>)
            /\ syncPc' = "loop"
            /\ UNCHANGED syncResult
    /\ UNCHANGED <<uploads, syncArgs, syncRest>>

\* lines 113-117: the next file is uploaded; an error of upload_file, itself
\* a TextSummarizerError, is wrapped again at 125-127
sync_directory_upload ==
    /\ syncPc = "loop"
    /\ todo # <<>>
    /\ \/ /\ uploads' = Append(uploads, [file |-> Head(todo),
                                         key |-> RemoteKey(s3_prefix, Head(todo))])
          /\ todo' = Tail(todo)
          /\ UNCHANGED <<syncPc, syncResult>>
       \/ /\ syncResult' = SyncRaised("sync_directory",
                   <<"TextSummarizerError", "TextSummarizerError", "ClientError">>)
          /\ syncPc' = "done"
          /\ UNCHANGED <<uploads, todo>>
    /\ UNCHANGED <<syncArgs, syncRest>>

\* the walk is over: lines 119-124, and the function returns None
sync_directory_return ==
    /\ syncPc = "loop"
    /\ todo = <<>>
    /\ syncResult' = SyncReturned("sync_directory")
    /\ syncPc' = "done"
    /\ UNCHANGED <<uploads, todo, syncArgs, syncRest>>

NextSync ==
    \/ upload_file_alone
    \/ sync_directory_enter
    \/ sync_directory_upload
    \/ sync_directory_return

SpecSync == InitSync /\ [][NextSync]_vars

\* C25: a sync_directory that returns has uploaded every regular file under
\* local_dir, at any depth, exactly once, to the key made of s3_prefix and the
\* file's relative path, and nothing else; on a local_dir that is no
\* directory it raises with NotADirectoryError as cause, which differs from
\* the FileNotFoundError of upload_file, and uploads nothing.
C25_SyncMirrorsTree ==
    /\ (syncResult.op = "sync_directory" /\ syncResult.kind = "returned") =>
          /\ {uploads[i] : i \in 1..Len(uploads)}
                = {[file |-> f, key |-> RemoteKey(s3_prefix, f)] : f \in tree}
          /\ Len(uploads) = Cardinality(tree)
    /\ (syncResult.op = "sync_directory" /\ local_dir # "dir") =>
          /\ syncResult.kind = "raised"
          /\ syncResult.chain = <<"TextSummarizerError", "NotADirectoryError">>
          /\ uploads = <<>>
    /\ (syncResult.op = "upload_file" /\ syncResult.kind = "raised" /\ uploads = <<>>
            /\ syncResult.chain[2] # "ClientError") =>
          syncResult.chain = <<"TextSummarizerError", "FileNotFoundError">>

=============================================================================
